---- MODULE Spec2Model ----
(***************************************************************************)
(* Self-update subsystem of TextConverter Pro.                             *)
(*                                                                         *)
(*   src/src/utils/version_manager.py   Version                            *)
(*   src/src/utils/github_updater.py    GitHubRelease, GitHubUpdater       *)
(*   src/src/utils/error_handler.py     error_boundary, retry_on_error     *)
(*   src/dmg_build/.../src/ui/update_manager.py   UpdateManager            *)
(*                                                                         *)
(* Strings are sequences of one-character strings, so that parsing and     *)
(* comparing them is computed and not assumed.  Python's None is the       *)
(* record None; an Optional[str] is Some(s) or NoneStr.                    *)
(***************************************************************************)
EXTENDS Integers, Sequences, FiniteSets, TLC

\* ------------------------------------------------------------------------
\* Characters and strings
\* ------------------------------------------------------------------------

DigitSeq == <<"0", "1", "2", "3", "4", "5", "6", "7", "8", "9">>

UpperSeq ==
  <<"A", "B", "C", "D", "E", "F", "G", "H", "I", "J", "K", "L", "M",
    "N", "O", "P", "Q", "R", "S", "T", "U", "V", "W", "X", "Y", "Z">>

LowerSeq ==
  <<"a", "b", "c", "d", "e", "f", "g", "h", "i", "j", "k", "l", "m",
    "n", "o", "p", "q", "r", "s", "t", "u", "v", "w", "x", "y", "z">>

\* The characters the model uses, in code-point order (Python compares
\* strings by code point).
CodePointOrder == <<" ", "+", "-", ".">> \o DigitSeq \o UpperSeq \o LowerSeq

Range(s) == {s[i] : i \in DOMAIN s}

DigitChars == Range(DigitSeq)

IdentCharsAndSpace ==
  DigitChars \cup Range(UpperSeq) \cup Range(LowerSeq) \cup {".", "-", " "}

\* [a-zA-Z0-9.-] of the version pattern
IdentChars == DigitChars \cup Range(UpperSeq) \cup Range(LowerSeq) \cup {".", "-"}

Ord(c) == CHOOSE i \in DOMAIN CodePointOrder : CodePointOrder[i] = c

DigitVal(c) == (CHOOSE i \in DOMAIN DigitSeq : DigitSeq[i] = c) - 1

Take(s, n) == SubSeq(s, 1, n)

Drop(s, n) == SubSeq(s, n + 1, Len(s))

\* length of the longest prefix of s made of characters of cs
RECURSIVE SpanLen(_, _)
SpanLen(s, cs) ==
  IF s = <<>> \/ Head(s) \notin cs THEN 0 ELSE 1 + SpanLen(Tail(s), cs)

\* int() of a non-empty run of decimal digits
RECURSIVE ToInt(_)
ToInt(ds) ==
  IF ds = <<>> THEN 0
  ELSE 10 * ToInt(Take(ds, Len(ds) - 1)) + DigitVal(ds[Len(ds)])

\* str() of a non-negative int
RECURSIVE IntToStr(_)
IntToStr(n) ==
  IF n < 10 THEN <<DigitSeq[n + 1]>>
  ELSE IntToStr(n \div 10) \o <<DigitSeq[(n % 10) + 1]>>

\* str.lstrip(chars)
RECURSIVE LStrip(_, _)
LStrip(s, cs) ==
  IF s = <<>> \/ Head(s) \notin cs THEN s ELSE LStrip(Tail(s), cs)

\* str.rstrip(chars)
RECURSIVE RStrip(_, _)
RStrip(s, cs) ==
  IF s = <<>> \/ s[Len(s)] \notin cs THEN s
  ELSE RStrip(Take(s, Len(s) - 1), cs)

\* str.strip(): whitespace off both ends
Strip(s) == RStrip(LStrip(s, {" "}), {" "})

\* str.lower() of one character
Lower(c) ==
  IF c \in Range(UpperSeq)
  THEN LowerSeq[CHOOSE i \in DOMAIN UpperSeq : UpperSeq[i] = c]
  ELSE c

\* str.lower()
LowerStr(s) == [i \in DOMAIN s |-> Lower(s[i])]

\* str.endswith(suffix)
EndsWith(s, suffix) ==
  /\ Len(s) >= Len(suffix)
  /\ SubSeq(s, Len(s) - Len(suffix) + 1, Len(s)) = suffix

\* sub in s
Contains(s, sub) ==
  \E i \in 1 .. (Len(s) - Len(sub) + 1) : SubSeq(s, i, i + Len(sub) - 1) = sub

\* Python's a < b on str: lexicographic by code point
RECURSIVE StrLt(_, _)
StrLt(a, b) ==
  IF b = <<>> THEN FALSE
  ELSE IF a = <<>> THEN TRUE
  ELSE IF Head(a) # Head(b) THEN Ord(Head(a)) < Ord(Head(b))
  ELSE StrLt(Tail(a), Tail(b))

\* ------------------------------------------------------------------------
\* Python values
\* ------------------------------------------------------------------------

None == [none |-> TRUE]

NoneStr == [some |-> FALSE, val |-> <<>>]

Some(s) == [some |-> TRUE, val |-> s]

\* truthiness of an Optional[str]: None and "" are both false
Truthy(o) == o.some /\ o.val # <<>>

\* the exception Version.from_string raises
ValueError == [error |-> "ValueError"]

\* ------------------------------------------------------------------------
\* Version  (version_manager.py)
\* ------------------------------------------------------------------------

Version(major, minor, patch, prerelease, build) ==
  [major |-> major, minor |-> minor, patch |-> patch,
   prerelease |-> prerelease, build |-> build]

\* ^(\d+)\.(\d+)\.(\d+)(?:-([a-zA-Z0-9.-]+))?(?:\+([a-zA-Z0-9.-]+))?$
\* matched against version_str.strip()
from_string(version_str) ==
  LET s0 == Strip(version_str)
      n1 == SpanLen(s0, DigitChars)
      s1 == Drop(s0, n1)
      n2 == SpanLen(Drop(s1, 1), DigitChars)
      s2 == Drop(s1, 1 + n2)
      n3 == SpanLen(Drop(s2, 1), DigitChars)
      s3 == Drop(s2, 1 + n3)
      hasPre == s3 # <<>> /\ Head(s3) = "-"
      np == IF hasPre THEN SpanLen(Drop(s3, 1), IdentChars) ELSE 0
      s4 == IF hasPre THEN Drop(s3, 1 + np) ELSE s3
      hasBuild == s4 # <<>> /\ Head(s4) = "+"
      nb == IF hasBuild THEN SpanLen(Drop(s4, 1), IdentChars) ELSE 0
      s5 == IF hasBuild THEN Drop(s4, 1 + nb) ELSE s4
      matched ==
        /\ n1 > 0
        /\ s1 # <<>> /\ Head(s1) = "."
        /\ n2 > 0
        /\ s2 # <<>> /\ Head(s2) = "."
        /\ n3 > 0
        /\ hasPre => np > 0
        /\ hasBuild => nb > 0
        /\ s5 = <<>>
  IN IF ~matched THEN ValueError
     ELSE Version(ToInt(Take(s0, n1)),
                  ToInt(Take(Drop(s1, 1), n2)),
                  ToInt(Take(Drop(s2, 1), n3)),
                  IF hasPre THEN Some(Take(Drop(s3, 1), np)) ELSE NoneStr,
                  IF hasBuild THEN Some(Take(Drop(s4, 1), nb)) ELSE NoneStr)

ToStringWithoutBuild(self) ==
  IntToStr(self.major) \o <<".">> \o IntToStr(self.minor) \o <<".">>
    \o IntToStr(self.patch)
    \o (IF Truthy(self.prerelease) THEN <<"-">> \o self.prerelease.val ELSE <<>>)

\* Version.to_string, which is also Version.__str__
to_string(self) ==
  IntToStr(self.major) \o <<".">> \o IntToStr(self.minor) \o <<".">>
    \o IntToStr(self.patch)
    \o (IF Truthy(self.prerelease) THEN <<"-">> \o self.prerelease.val ELSE <<>>)
    \o (IF Truthy(self.build) THEN <<"+">> \o self.build.val ELSE <<>>)

\* format_version_for_display
format_version_for_display(version) ==
  <<"v">> \o IntToStr(version.major) \o <<".">> \o IntToStr(version.minor)
    \o <<".">> \o IntToStr(version.patch)
    \o (IF Truthy(version.prerelease)
        THEN <<" ", "(">> \o version.prerelease.val \o <<")">>
        ELSE <<>>)

\* tuple comparison (major, minor, patch) < (major, minor, patch)
TupleLt(a, b) ==
  \/ a.major < b.major
  \/ a.major = b.major /\ a.minor < b.minor
  \/ a.major = b.major /\ a.minor = b.minor /\ a.patch < b.patch

TupleEq(a, b) == a.major = b.major /\ a.minor = b.minor /\ a.patch = b.patch

TupleOnlyLt(self, other) == TupleLt(self, other)

\* Version.__lt__
VersionLt(self, other) ==
  IF ~TupleEq(self, other) THEN TupleLt(self, other)
  ELSE IF Truthy(self.prerelease) /\ ~Truthy(other.prerelease) THEN TRUE
  ELSE IF ~Truthy(self.prerelease) /\ Truthy(other.prerelease) THEN FALSE
  ELSE IF Truthy(self.prerelease) /\ Truthy(other.prerelease)
       THEN StrLt(self.prerelease.val, other.prerelease.val)
  ELSE FALSE

DataclassEq(self, other) == self = other

\* Version.__eq__
VersionEq(self, other) ==
  /\ self.major = other.major
  /\ self.minor = other.minor
  /\ self.patch = other.patch
  /\ self.prerelease = other.prerelease

LeWithoutEq(self, other) == VersionLt(self, other)

\* Version.__le__
VersionLe(self, other) == VersionLt(self, other) \/ VersionEq(self, other)

\* Version.__gt__
VersionGt(self, other) == ~VersionLe(self, other)

\* Version.__ge__
VersionGe(self, other) == ~VersionLt(self, other)

is_major_update(self, other) == other.major > self.major

is_minor_update(self, other) ==
  other.major = self.major /\ other.minor > self.minor

is_patch_update(self, other) ==
  other.major = self.major /\ other.minor = self.minor /\ other.patch > self.patch

UpdateTypeWithoutOrderTest(self, other) ==
  IF is_major_update(self, other) THEN "major"
  ELSE IF is_minor_update(self, other) THEN "minor"
  ELSE IF is_patch_update(self, other) THEN "patch"
  ELSE "prerelease"

\* Version.get_update_type; the strings are the ones the code returns
get_update_type(self, other) ==
  IF VersionLe(other, self) THEN "None"
  ELSE IF is_major_update(self, other) THEN "major"
  ELSE IF is_minor_update(self, other) THEN "minor"
  ELSE IF is_patch_update(self, other) THEN "patch"
  ELSE "prerelease"

\* CURRENT_VERSION = Version.from_string("1.0.0")
CURRENT_VERSION == from_string(<<"1", ".", "0", ".", "0">>)

\* ------------------------------------------------------------------------
\* GitHubRelease  (github_updater.py)
\* ------------------------------------------------------------------------

\* the fields of the GitHubRelease dataclass
ReleaseFields ==
  {"tag_name", "name", "body", "published_at", "html_url", "download_url",
   "prerelease", "size_bytes"}

\* the exception GitHubRelease(**d) raises when d's keys are not the fields
TypeError == [error |-> "TypeError"]

\* GitHubRelease(**d) for a JSON object d
ReleaseFromDict(d) ==
  IF DOMAIN d # ReleaseFields THEN TypeError
  ELSE [tag_name |-> d.tag_name, name |-> d.name, body |-> d.body,
        published_at |-> d.published_at, html_url |-> d.html_url,
        download_url |-> d.download_url, prerelease |-> d.prerelease,
        size_bytes |-> d.size_bytes]

\* GitHubRelease.version: the tag without its leading 'v's, parsed
release_version(release) == from_string(LStrip(release.tag_name, {"v"}))

\* ------------------------------------------------------------------------
\* The release cache  (GitHubUpdater._get_cached_release, _cache_release)
\* ------------------------------------------------------------------------

\* self.cache_duration = timedelta(hours=1); the clock counts hours
CacheDurationHours == 1

\* what the cache path holds
NoFile == [kind |-> "absent"]

\* a file json.load or the key lookups fail on
MalformedFile == [kind |-> "malformed"]

CacheEntry(cached_at, release_dict) ==
  [kind |-> "entry", cached_at |-> cached_at, release |-> release_dict]

\* ReleaseDict with the page URL stored under 'download_url'
ReleaseDictWrongUrl(release) ==
  [tag_name |-> release.tag_name,
   name |-> release.name,
   body |-> release.body,
   published_at |-> release.published_at,
   html_url |-> release.html_url,
   download_url |-> release.html_url,
   prerelease |-> release.prerelease,
   size_bytes |-> release.size_bytes]

\* the 'release' object _cache_release serialises
ReleaseDict(release) ==
  [tag_name |-> release.tag_name,
   name |-> release.name,
   body |-> release.body,
   published_at |-> release.published_at,
   html_url |-> release.html_url,
   download_url |-> release.download_url,
   prerelease |-> release.prerelease,
   size_bytes |-> release.size_bytes]

\* CacheExpired with a lifetime of a day (the lifetime the updater's test
\* of an expired cache speaks of)
CacheExpiredAfterADay(clock, cached_at) == clock - cached_at > 24

\* the age test of _get_cached_release: datetime.now() - cached_time > cache_duration
CacheExpired(clock, cached_at) == clock - cached_at > CacheDurationHours

\* CachedIsNewer with >= for >
CachedIsNotOlder(cached_release, current) ==
  ~VersionLt(release_version(cached_release), current)

\* the version test of _get_cached_release
CachedIsNewer(cached_release, current) ==
  VersionGt(release_version(cached_release), current)

\* _get_cached_release: io is "ok", or "error" when opening or reading the
\* file raises; every exception is caught and gives None
_get_cached_release(file, clock, current, io) ==
  IF file.kind = "absent" THEN None
  ELSE IF io # "ok" THEN None
  ELSE IF file.kind = "malformed" THEN None
  ELSE IF CacheExpired(clock, file.cached_at) THEN None
  ELSE LET cached_release == ReleaseFromDict(file.release)
       IN IF cached_release = TypeError THEN None
          ELSE IF release_version(cached_release) = ValueError THEN None
          ELSE IF CachedIsNewer(cached_release, current) THEN cached_release
          ELSE None

\* _cache_release: the file afterwards. outcome is "ok", "open_fails" (the
\* file is left as it was) or "dump_fails" (opened for writing, so truncated,
\* and not completely written); the exception is caught in both cases
_cache_release(file, release, clock, outcome) ==
  IF outcome = "ok" THEN CacheEntry(clock, ReleaseDict(release))
  ELSE IF outcome = "dump_fails" THEN MalformedFile
  ELSE file

\* ------------------------------------------------------------------------
\* Release discovery  (GitHubUpdater.check_for_updates, _parse_release_data)
\* ------------------------------------------------------------------------

DotZip == <<".", "z", "i", "p">>

DotAppDotZip == <<".", "a", "p", "p", ".", "z", "i", "p">>

ProductName ==
  <<"t", "e", "x", "t", "c", "o", "n", "v", "e", "r", "t", "e", "r">>

\* the test _parse_release_data applies to an asset's name
AssetMatches(asset_name) ==
  LET name == LowerStr(asset_name)
  IN \/ EndsWith(name, DotZip)
     \/ EndsWith(name, DotAppDotZip)
     \/ Contains(name, ProductName)

\* index of the last matching asset, 0 if there is none
LastMatch(assets) ==
  IF \E i \in DOMAIN assets : AssetMatches(assets[i].name)
  THEN CHOOSE i \in DOMAIN assets :
         /\ AssetMatches(assets[i].name)
         /\ \A j \in (i + 1) .. Len(assets) : ~AssetMatches(assets[j].name)
  ELSE 0

\* index of the first matching asset, 0 if there is none
FirstMatch(assets) ==
  IF \E i \in DOMAIN assets : AssetMatches(assets[i].name)
  THEN CHOOSE i \in DOMAIN assets :
         /\ AssetMatches(assets[i].name)
         /\ \A j \in 1 .. (i - 1) : ~AssetMatches(assets[j].name)
  ELSE 0

\* _parse_release_data(data)
_parse_release_data(data) ==
  LET i == FirstMatch(data.assets)
  IN [tag_name |-> data.tag_name,
      name |-> data.name,
      body |-> data.body,
      published_at |-> data.published_at,
      html_url |-> data.html_url,
      download_url |->
        \* if not download_url: download_url = data.get('zipball_url')
        IF i # 0 /\ data.assets[i].browser_download_url # ""
        THEN data.assets[i].browser_download_url
        ELSE data.zipball_url,
      prerelease |-> data.prerelease,
      size_bytes |-> IF i # 0 THEN data.assets[i].size ELSE 0]

\* an exception leaving check_for_updates after its retries
Raised == [error |-> "Exception"]

\* check_for_updates(force_check) of an updater that checks stable releases
\* only, for the answer of the release host that decides the call: "error"
\* (the request or the parsing raised on every attempt), "not_found" (a 404
\* or a status other than 200), or "release" with the JSON object.  Gives the
\* value returned (Raised: an exception) and the cache file afterwards.
check_for_updates(force_check, file, clock, current, answer, read_io, write_io) ==
  LET cached_release == _get_cached_release(file, clock, current, read_io)
  IN IF ~force_check /\ cached_release # None
     THEN [value |-> cached_release, file |-> file]
     ELSE IF answer.kind = "error" THEN [value |-> Raised, file |-> file]
     ELSE IF answer.kind = "not_found" THEN [value |-> None, file |-> file]
     ELSE LET release == _parse_release_data(answer.data)
          IN IF release_version(release) = ValueError
             THEN [value |-> Raised, file |-> file]
             ELSE IF VersionGt(release_version(release), current)
             THEN [value |-> release,
                   file |-> _cache_release(file, release, clock, write_io)]
             ELSE [value |-> None, file |-> file]

\* ------------------------------------------------------------------------
\* State
\* ------------------------------------------------------------------------

VARIABLES
  now,                \* datetime.now(), in hours
  cache_file,         \* what self.cache_file holds on disk
  current_version,    \* GitHubUpdater.current_version
  cached_result,      \* what the last _get_cached_release call returned
  lastOp,             \* the last cache operation and what it was given
  canonical,          \* what current_app_path holds on disk
  temp_old,           \* what <current_app_path>.old holds on disk
  pc,                 \* where each thread of control stands
  loc,                \* the local variables of each thread's call
  gh,                 \* per call, what it found and did (history)
  update_in_progress, \* UpdateManager.update_in_progress
  available_update,   \* UpdateManager.available_update
  last_check_time,    \* UpdateManager.last_check_time
  check_updates,      \* settings.behavior.check_updates
  timers,             \* whether setup_periodic_checks has started its timers
  lastNote,           \* the last notification shown
  quit,               \* the application has quit to restart
  fatalOutcomes,      \* what callers were told when the restore had failed
  recoveredOutcomes,  \* what callers were told when the original was in place
  started,            \* pipelines started so far
  skipped,            \* the tags the user has chosen to skip (history)
  dc,                 \* the check_for_updates call in progress, step by step
  dl,                 \* the download_update transfer in progress
  vm,                 \* the last call on Version: its arguments and results
  wr                  \* the call through a decorator of error_handler.py

cacheVars == <<now, cache_file, current_version, cached_result, lastOp>>

diskVars == <<canonical, temp_old>>

callVars == <<pc, loc, gh>>

ioVars == <<dc, dl, vm, wr>>

mgrVars == <<update_in_progress, available_update, last_check_time,
             check_updates, timers, lastNote, quit, fatalOutcomes,
             recoveredOutcomes, started, skipped>>

vars == <<now, cache_file, current_version, cached_result, lastOp,
          canonical, temp_old, pc, loc, gh,
          update_in_progress, available_update, last_check_time,
          check_updates, timers, lastNote, quit, fatalOutcomes,
          recoveredOutcomes, started, skipped, dc, dl, vm, wr>>

\* ------------------------------------------------------------------------
\* Bounds and the values the model draws from
\* ------------------------------------------------------------------------

\* the clock stops advancing here
MaxNow == 3

TagNewer == <<"v", "1", ".", "2", ".", "0">>

TagEqual == <<"1", ".", "0", ".", "0">>

TagOlder == <<"v", "0", ".", "9", ".", "0">>

TagBeta == <<"v", "1", ".", "0", ".", "0", "-", "b", "e", "t", "a">>

TagNextRc == <<"v", "1", ".", "0", ".", "1", "-", "r", "c">>

TagInvalid == <<"n", "i", "g", "h", "t", "l", "y">>

Release(tag, pre, url, size) ==
  [tag_name |-> tag, name |-> "Release", body |-> "notes",
   published_at |-> "2024-01-01T12:00:00Z", html_url |-> "https://page",
   download_url |-> url, prerelease |-> pre, size_bytes |-> size]

Releases ==
  {Release(TagNewer, FALSE, "https://asset.zip", 1048576),
   Release(TagEqual, FALSE, "https://zipball", 0),
   Release(TagOlder, FALSE, "https://asset.zip", 1024),
   Release(TagBeta, TRUE, "https://asset.zip", 1024),
   Release(TagNextRc, TRUE, "https://zipball", 0),
   Release(TagInvalid, FALSE, "https://asset.zip", 1024)}

\* versions an updater is constructed with
CurrentVersions ==
  {CURRENT_VERSION,
   from_string(<<"1", ".", "0", ".", "1", "-", "a", "l", "p", "h", "a">>)}

\* a release object written by a build whose dataclass had no size_bytes
OldFormatDict ==
  [tag_name |-> TagNewer, name |-> "Release", body |-> "notes",
   published_at |-> "2024-01-01T12:00:00Z", html_url |-> "https://page",
   download_url |-> "https://asset.zip", prerelease |-> FALSE]

\* the cache file persists across runs: what a new process may find
InitialCacheFiles ==
  {NoFile, MalformedFile, CacheEntry(0, OldFormatDict)}
    \cup {CacheEntry(0, ReleaseDict(r)) : r \in Releases}

WriteOutcomes == {"ok", "open_fails", "dump_fails"}

\* background threads the application may have alive at once
MaxThreads == 2

\* pipelines (checks and updates) the application starts in one execution
MaxRuns == 2

\* pipelines started in one execution where they run one after another
MaxScenarioRuns == 3

Threads == 1 .. MaxThreads

\* 0 is the main (UI) thread
Procs == 0 .. MaxThreads

\* complete application bundles: A is installed at first, B is another version
Bundles == {"A", "B"}

\* what a directory path may hold: nothing, a complete bundle, a tree that
\* was only partly copied or partly deleted, or a bundle with another
\* bundle moved inside it
Contents == {"none", "partial", "mixed"} \cup Bundles

\* what a downloaded file may be: a zip archive holding bundle A or B, an
\* archive with no .app directory in it, a file that is no zip archive, a
\* truncated file, or no file
Archives == Bundles \cup {"noapp", "corrupt", "partial", "none"}

NoNote == [title |-> "", message |-> ""]

Note(title, message) == [title |-> title, message |-> message]

AssetZipName == <<"A", "p", "p", ".", "z", "i", "p">>

\* the release host's JSON for release 1.2.0, with one matching asset
DataNewer ==
  [tag_name |-> TagNewer, name |-> "Release", body |-> "notes",
   published_at |-> "2024-01-01T12:00:00Z", html_url |-> "https://page",
   prerelease |-> FALSE, zipball_url |-> "https://zipball",
   assets |-> <<[name |-> AssetZipName,
                 browser_download_url |-> "https://asset.zip",
                 size |-> 1048576]>>]

\* the release host's JSON for release 1.0.0, with no assets
DataEqual ==
  [tag_name |-> TagEqual, name |-> "Release", body |-> "notes",
   published_at |-> "2024-01-01T12:00:00Z", html_url |-> "https://page",
   prerelease |-> FALSE, zipball_url |-> "https://zipball",
   assets |-> <<>>]

\* what the release host may answer to a check
RemoteAnswers ==
  {[kind |-> "error"], [kind |-> "not_found"],
   [kind |-> "release", data |-> DataNewer],
   [kind |-> "release", data |-> DataEqual]}

\* what the download URL of a release may serve
ServedArchives == {"B", "noapp", "corrupt"}

\* the locals of a call before it assigns them, write_io, how the write of
\* the cache file it has begun will end, and three history fields:
\* skipped_before, the tags that had been skipped when the call began,
\* callback_raised, whether the notification callback raised at the last
\* notification of the call, and overlapped, whether another call had the
\* cache file open for writing at the same time
InitLoc ==
  [show |-> FALSE, fetched |-> None, release |-> None,
   download |-> "none", downloads |-> 0, have_path |-> FALSE,
   backup_current |-> TRUE, backup_path |-> "unbound", backup |-> "none",
   extract |-> "none", success |-> "unset", message |-> "",
   answer |-> [kind |-> "none"], skipped_before |-> {},
   callback_raised |-> FALSE, write_io |-> "none", overlapped |-> FALSE]

\* history of one install_update call: the bundle installed when it began,
\* what the archive held, whether it changed or tried to change the
\* canonical path, whether it tried a rollback, the first step that failed,
\* whether a restore step failed, how its last restore step ended, and, for
\* a failed update, whether the original bundle was left in place ("intact")
\* or could not be restored ("fatal")
InitGh ==
  [pre |-> "none", newc |-> "none", touched |-> FALSE, rollback |-> FALSE,
   failStage |-> "none", restoreFailed |-> FALSE, lastRestore |-> "none",
   class |-> "none"]

ReadOutcomes == {"ok", "error"}

\* no check_for_updates call has begun
InitDc ==
  [pc |-> "idle", force_check |-> FALSE, check_prereleases |-> FALSE,
   outer_attempt |-> 0, outer_delay |-> 0, outer_slept |-> <<>>,
   inner_attempt |-> 0, inner_delay |-> 0, inner_slept |-> <<>>,
   requests |-> 0, cache_reads |-> 0, read_io |-> "none", from_cache |-> FALSE,
   answer |-> [kind |-> "none"], data |-> None, value |-> None]

\* no transfer has begun
InitDl ==
  [pc |-> "idle", has_callback |-> FALSE, block_size |-> 0, total_size |-> 0,
   block_num |-> 0, invocations |-> 0, progress |-> None]

\* no call on Version has been made
InitVm == [op |-> "none"]

\* no call through retry_on_error or error_boundary is in progress
InitWr == [pc |-> "idle"]

\* a GitHubUpdater with no call in progress
UpdaterIdle ==
  /\ vm = InitVm
  /\ wr = InitWr
  /\ dc = InitDc
  /\ dl = InitDl

\* UpdateManager.__init__ with checking enabled (the default setting)
ManagerConstructed ==
  /\ update_in_progress = FALSE
  /\ available_update = None
  /\ last_check_time = None
  /\ check_updates = TRUE
  /\ timers = TRUE
  /\ lastNote = NoNote
  /\ quit = FALSE
  /\ fatalOutcomes = {}
  /\ recoveredOutcomes = {}
  /\ started = 0
  /\ skipped = {}

\* ------------------------------------------------------------------------
\* The cache on its own: calls of _cache_release and _get_cached_release
\* at arbitrary times
\* ------------------------------------------------------------------------

CacheInit ==
  /\ now = 0
  /\ cache_file \in InitialCacheFiles
  /\ current_version \in CurrentVersions
  /\ cached_result = None
  /\ lastOp = [op |-> "init"]
  /\ canonical = "A"
  /\ temp_old = "none"
  /\ pc = [p \in Procs |-> "idle"]
  /\ loc = [p \in Procs |-> InitLoc]
  /\ gh = [p \in Procs |-> InitGh]
  /\ ManagerConstructed
  /\ UpdaterIdle

\* an hour passes
Tick ==
  /\ now < MaxNow
  /\ now' = now + 1
  /\ lastOp' = [op |-> "tick"]
  /\ UNCHANGED <<cache_file, current_version, cached_result>>
  /\ UNCHANGED <<diskVars, callVars, mgrVars>>
  /\ UNCHANGED ioVars

CacheReleaseCall ==
  \E release \in Releases, outcome \in WriteOutcomes :
    /\ cache_file' = _cache_release(cache_file, release, now, outcome)
    /\ lastOp' = [op |-> "write", release |-> release, outcome |-> outcome]
    /\ UNCHANGED <<now, current_version, cached_result>>
    /\ UNCHANGED <<diskVars, callVars, mgrVars>>
    /\ UNCHANGED ioVars

GetCachedReleaseCall ==
  \E io \in ReadOutcomes :
    /\ cached_result' = _get_cached_release(cache_file, now, current_version, io)
    /\ lastOp' = [op |-> "read", io |-> io,
                  wrote |-> IF lastOp.op = "write" THEN lastOp ELSE None]
    /\ UNCHANGED <<now, cache_file, current_version>>
    /\ UNCHANGED <<diskVars, callVars, mgrVars>>
    /\ UNCHANGED ioVars

CacheNext == Tick \/ CacheReleaseCall \/ GetCachedReleaseCall

CacheSpec == CacheInit /\ [][CacheNext]_vars

\* ------------------------------------------------------------------------
\* Properties of the cache
\* ------------------------------------------------------------------------

\* the release of `file` is one _get_cached_release can load, and its version
ValidEntry(file) ==
  /\ file.kind = "entry"
  /\ ReleaseFromDict(file.release) # TypeError
  /\ release_version(ReleaseFromDict(file.release)) # ValueError

IsNewerRelease(release) ==
  /\ release_version(release) # ValueError
  /\ VersionGt(release_version(release), current_version)

C9_NoExpiredHit ==
  (lastOp.op = "read" /\ cached_result # None)
    => /\ cache_file.kind = "entry"
       /\ now - cache_file.cached_at <= CacheDurationHours

\* an entry that is valid and newer but two hours old was read, and refused
C9_Witness ==
  /\ lastOp.op = "read"
  /\ lastOp.io = "ok"
  /\ ValidEntry(cache_file)
  /\ IsNewerRelease(ReleaseFromDict(cache_file.release))
  /\ now - cache_file.cached_at = CacheDurationHours + 1
  /\ cached_result = None

\* C10: _get_cached_release returns no entry whose release version is less
\* than or equal to the current version, fresh or not.
C10_NoStaleVersionHit ==
  (lastOp.op = "read" /\ cached_result # None)
    => /\ release_version(cached_result) # ValueError
       /\ ~VersionLe(release_version(cached_result), current_version)

\* a fresh, loadable entry of the current version itself was read, and refused
C10_Witness ==
  /\ lastOp.op = "read"
  /\ lastOp.io = "ok"
  /\ ValidEntry(cache_file)
  /\ now - cache_file.cached_at <= CacheDurationHours
  /\ VersionEq(release_version(ReleaseFromDict(cache_file.release)), current_version)
  /\ cached_result = None

\* ------------------------------------------------------------------------
\* The file operations install_update uses.  Each gives the set of ways the
\* call can end: ok or an exception, and what the paths hold afterwards.
\* ------------------------------------------------------------------------

\* shutil.move(src, dst): a rename, or a copy and delete where the rename is
\* refused; into an existing directory it moves src inside it
MoveOutcomes(src, dst) ==
  IF src = "none" THEN {[ok |-> FALSE, src |-> src, dst |-> dst]}
  ELSE IF dst # "none"
       THEN {[ok |-> TRUE, src |-> "none", dst |-> "mixed"],
             [ok |-> FALSE, src |-> src, dst |-> dst]}
  ELSE {[ok |-> TRUE, src |-> "none", dst |-> src],
        [ok |-> FALSE, src |-> src, dst |-> "none"],
        [ok |-> FALSE, src |-> src, dst |-> "partial"]}

\* shutil.copytree(src, dst): dst must not exist
CopyOutcomes(src, dst) ==
  IF src = "none" \/ dst # "none" THEN {[ok |-> FALSE, dst |-> dst]}
  ELSE {[ok |-> TRUE, dst |-> src],
        [ok |-> FALSE, dst |-> "none"],
        [ok |-> FALSE, dst |-> "partial"]}

\* shutil.rmtree(path)
RmOutcomes(path) ==
  IF path = "none" THEN {[ok |-> FALSE, path |-> "none"]}
  ELSE {[ok |-> TRUE, path |-> "none"],
        [ok |-> FALSE, path |-> path],
        [ok |-> FALSE, path |-> "partial"]}

\* tempfile.mkdtemp and ZipFile.extractall of the downloaded file: the
\* extraction directory afterwards ("empty": it holds no .app directory)
ExtractOutcomes(download) ==
  {[ok |-> FALSE, dir |-> "none"], [ok |-> FALSE, dir |-> "empty"]}
    \cup (IF download \in Bundles THEN {[ok |-> TRUE, dir |-> download]}
          ELSE IF download = "noapp" THEN {[ok |-> TRUE, dir |-> "empty"]}
          ELSE {})

\* _restore_backup(backup_path, target_path): rmtree of the target if it
\* exists, then copytree of the backup; the target afterwards
RestoreOutcomes(backup, target) ==
  LET removed == IF target = "none" THEN {[ok |-> TRUE, path |-> "none"]}
                 ELSE RmOutcomes(target)
  IN {[ok |-> FALSE, target |-> r.path] : r \in {x \in removed : ~x.ok}}
       \cup {[ok |-> c.ok, target |-> c.dst] :
               c \in IF \E x \in removed : x.ok
                     THEN CopyOutcomes(backup, "none") ELSE {}}

\* the except branch of install_update restores when a backup was made
RestoresBackup(l) == l.backup_path = "set" /\ l.backup # "none"

\* the guard of _replace_application's own rollback
RollsBack(old_path, aside) == aside # "none" /\ old_path = "none"

\* ------------------------------------------------------------------------
\* GitHubUpdater.install_update, step by step, run by thread t
\* ------------------------------------------------------------------------

\* the first step of a call that fails
Failed(g, stage) ==
  IF g.failStage = "none" THEN [g EXCEPT !.failStage = stage] ELSE g

\* current_app_path = self._get_current_app_path()
i_start(t) ==
  /\ pc[t] = "i_start"
  /\ UNCHANGED <<cacheVars, mgrVars>>
  /\ \E found \in BOOLEAN :
       IF found
       THEN /\ loc' = [loc EXCEPT ![t].backup_path = "None"]
            /\ pc' = [pc EXCEPT ![t] =
                        IF loc[t].backup_current THEN "i_backup" ELSE "i_extract"]
            /\ gh' = gh
       ELSE \* ConfigurationError; the handler then reads backup_path, which
            \* is unbound, and the error boundary returns False
            /\ loc' = [loc EXCEPT ![t].success = "False"]
            /\ gh' = [gh EXCEPT ![t] = Failed(@, "app_path")]
            /\ pc' = [pc EXCEPT ![t] = "i_done"]
  /\ UNCHANGED <<diskVars>>
  /\ UNCHANGED ioVars

\* backup_path = self._create_backup(current_app_path)
i_backup(t) ==
  /\ pc[t] = "i_backup"
  /\ UNCHANGED <<cacheVars, mgrVars>>
  /\ \E o \in CopyOutcomes(canonical, loc[t].backup) :
       IF o.ok
       THEN /\ loc' = [loc EXCEPT ![t].backup = o.dst, ![t].backup_path = "set"]
            /\ pc' = [pc EXCEPT ![t] = "i_extract"]
            /\ gh' = gh
       ELSE /\ loc' = [loc EXCEPT ![t].backup = o.dst]
            /\ gh' = [gh EXCEPT ![t] = Failed(@, "backup")]
            /\ pc' = [pc EXCEPT ![t] = "i_except"]
  /\ UNCHANGED <<diskVars>>
  /\ UNCHANGED ioVars

\* mkdtemp, extractall, _find_app_bundle
i_extract(t) ==
  /\ pc[t] = "i_extract"
  /\ UNCHANGED <<cacheVars, mgrVars>>
  /\ \E o \in ExtractOutcomes(loc[t].download) :
       /\ loc' = [loc EXCEPT ![t].extract = o.dir]
       /\ IF ~o.ok
          THEN /\ gh' = [gh EXCEPT ![t] = Failed(@, "extract")]
               /\ pc' = [pc EXCEPT ![t] = "i_except"]
          ELSE IF o.dir \notin Bundles
          THEN /\ gh' = [gh EXCEPT ![t] = Failed(@, "find")]
               /\ pc' = [pc EXCEPT ![t] = "i_except"]
          ELSE /\ gh' = gh
               /\ pc' = [pc EXCEPT ![t] = "r_clean"]
  /\ UNCHANGED <<diskVars>>
  /\ UNCHANGED ioVars

\* _replace_application: if temp_old.exists(): shutil.rmtree(temp_old)
r_clean(t) ==
  /\ pc[t] = "r_clean"
  /\ UNCHANGED <<cacheVars, mgrVars>>
  /\ IF temp_old = "none"
     THEN /\ pc' = [pc EXCEPT ![t] = "r_aside"]
          /\ UNCHANGED <<temp_old, gh>>
     ELSE \E o \in RmOutcomes(temp_old) :
            /\ temp_old' = o.path
            /\ IF o.ok
               THEN /\ pc' = [pc EXCEPT ![t] = "r_aside"]
                    /\ gh' = gh
               ELSE /\ pc' = [pc EXCEPT ![t] = "i_except"]
                    /\ gh' = [gh EXCEPT ![t] = Failed(@, "clean_old")]
  /\ UNCHANGED <<canonical, loc>>
  /\ UNCHANGED ioVars

\* _replace_application: shutil.move(str(old_path), str(temp_old))
r_aside(t) ==
  /\ pc[t] = "r_aside"
  /\ UNCHANGED <<cacheVars, mgrVars>>
  /\ \E o \in MoveOutcomes(canonical, temp_old) :
       /\ canonical' = o.src
       /\ temp_old' = o.dst
       /\ IF o.ok
          THEN /\ pc' = [pc EXCEPT ![t] = "r_movein"]
               /\ gh' = [gh EXCEPT ![t].touched = TRUE]
          ELSE /\ pc' = [pc EXCEPT ![t] = "i_except"]
               /\ gh' = [gh EXCEPT ![t] = Failed(@, "aside")]
  /\ UNCHANGED <<loc>>
  /\ UNCHANGED ioVars

\* _replace_application: shutil.move(str(new_path), str(old_path))
r_movein(t) ==
  /\ pc[t] = "r_movein"
  /\ UNCHANGED <<cacheVars, mgrVars>>
  /\ \E o \in MoveOutcomes(loc[t].extract, canonical) :
       /\ canonical' = o.dst
       /\ loc' = [loc EXCEPT ![t].extract =
                    IF o.src = "none" THEN "empty" ELSE o.src]
       /\ IF o.ok
          THEN /\ pc' = [pc EXCEPT ![t] = "r_rm_old"]
               /\ gh' = [gh EXCEPT ![t].touched = TRUE]
          ELSE /\ pc' = [pc EXCEPT ![t] = "r_rollback"]
               /\ gh' = [gh EXCEPT ![t] = Failed([@ EXCEPT !.touched = TRUE], "movein")]
  /\ UNCHANGED <<temp_old>>
  /\ UNCHANGED ioVars

\* _replace_application: shutil.rmtree(temp_old)
r_rm_old(t) ==
  /\ pc[t] = "r_rm_old"
  /\ UNCHANGED <<cacheVars, mgrVars>>
  /\ \E o \in RmOutcomes(temp_old) :
       /\ temp_old' = o.path
       /\ IF o.ok
          THEN /\ pc' = [pc EXCEPT ![t] = "i_cleanup"]
               /\ gh' = gh
          ELSE /\ pc' = [pc EXCEPT ![t] = "r_rollback"]
               /\ gh' = [gh EXCEPT ![t] = Failed(@, "rm_old")]
  /\ UNCHANGED <<canonical, loc>>
  /\ UNCHANGED ioVars

\* _replace_application, except branch: restore the old application if the
\* new one is not in place, and raise again
r_rollback(t) ==
  /\ pc[t] = "r_rollback"
  /\ UNCHANGED <<cacheVars, mgrVars>>
  /\ IF RollsBack(canonical, temp_old)
     THEN \E o \in MoveOutcomes(temp_old, canonical) :
            /\ temp_old' = o.src
            /\ canonical' = o.dst
            /\ gh' = [gh EXCEPT ![t].rollback = TRUE,
                                ![t].restoreFailed = @ \/ ~o.ok,
                                ![t].lastRestore = IF o.ok THEN "ok" ELSE "failed"]
     ELSE UNCHANGED <<diskVars, gh>>
  /\ pc' = [pc EXCEPT ![t] = "i_except"]
  /\ UNCHANGED <<loc>>
  /\ UNCHANGED ioVars

\* a file that was not unlinked
NotUnlinked(download) == download

\* download_path.unlink(missing_ok=True), when it does not raise
Unlinked(download) == "none"

\* install_update: shutil.rmtree(temp_extract_dir, ignore_errors=True), which
\* may leave the directory without raising; download_path.unlink(
\* missing_ok=True); return True
i_cleanup(t) ==
  /\ pc[t] = "i_cleanup"
  /\ UNCHANGED <<cacheVars, mgrVars>>
  /\ \E dir \in {"none", loc[t].extract}, unlinked \in BOOLEAN :
       LET g == IF dir = "none" THEN gh[t] ELSE Failed(gh[t], "rmtree")
       IN IF unlinked
          THEN /\ loc' = [loc EXCEPT ![t].extract = dir,
                                     ![t].download = Unlinked(@),
                                     ![t].success = "True"]
               /\ pc' = [pc EXCEPT ![t] = "i_done"]
               /\ gh' = [gh EXCEPT ![t] = g]
          ELSE /\ loc' = [loc EXCEPT ![t].extract = dir]
               /\ pc' = [pc EXCEPT ![t] = "i_except"]
               /\ gh' = [gh EXCEPT ![t] = Failed(g, "cleanup")]
  /\ UNCHANGED <<diskVars>>
  /\ UNCHANGED ioVars

\* install_update, except branch: restore the backup if there is one; the
\* exception is raised again and the error boundary returns False
i_except(t) ==
  /\ pc[t] = "i_except"
  /\ UNCHANGED <<cacheVars, mgrVars>>
  /\ IF RestoresBackup(loc[t])
     THEN \E o \in RestoreOutcomes(loc[t].backup, canonical) :
            /\ canonical' = o.target
            /\ gh' = [gh EXCEPT ![t].rollback = TRUE,
                                ![t].touched = TRUE,
                                ![t].restoreFailed = @ \/ ~o.ok,
                                ![t].lastRestore = IF o.ok THEN "ok" ELSE "failed"]
     ELSE UNCHANGED <<canonical, gh>>
  /\ loc' = [loc EXCEPT ![t].success = "False"]
  /\ pc' = [pc EXCEPT ![t] = "i_done"]
  /\ UNCHANGED <<temp_old>>
  /\ UNCHANGED ioVars

\* ------------------------------------------------------------------------
\* install_update on its own: one caller, any downloaded file, either value
\* of backup_current
\* ------------------------------------------------------------------------

InstallInit ==
  /\ now = 0
  /\ cache_file = NoFile
  /\ current_version = CURRENT_VERSION
  /\ cached_result = None
  /\ lastOp = [op |-> "init"]
  /\ canonical = "A"
  /\ temp_old \in {"none", "partial"}
  /\ pc = [p \in Procs |-> "idle"]
  /\ loc = [p \in Procs |-> InitLoc]
  /\ gh = [p \in Procs |-> InitGh]
  /\ ManagerConstructed
  /\ UpdaterIdle

\* install_update(download_path, backup_current) is called
InstallCall ==
  /\ pc[1] = "idle"
  /\ \E download \in Archives, backup_current \in BOOLEAN :
       /\ loc' = [loc EXCEPT ![1] = [InitLoc EXCEPT !.download = download,
                                                    !.have_path = TRUE,
                                                    !.backup_current = backup_current]]
       /\ gh' = [gh EXCEPT ![1] = [InitGh EXCEPT !.pre = canonical,
                                                 !.newc = download]]
  /\ pc' = [pc EXCEPT ![1] = "i_start"]
  /\ UNCHANGED <<diskVars, cacheVars, mgrVars>>
  /\ UNCHANGED ioVars

\* the caller has the result
InstallReturn ==
  /\ pc[1] = "i_done"
  /\ pc' = [pc EXCEPT ![1] = "idle"]
  /\ loc' = [loc EXCEPT ![1] = InitLoc]
  /\ gh' = [gh EXCEPT ![1] = InitGh]
  /\ UNCHANGED <<diskVars, cacheVars, mgrVars>>
  /\ UNCHANGED ioVars

InstallNext ==
  \/ InstallCall
  \/ i_start(1)
  \/ i_backup(1)
  \/ i_extract(1)
  \/ r_clean(1)
  \/ r_aside(1)
  \/ r_movein(1)
  \/ r_rm_old(1)
  \/ r_rollback(1)
  \/ i_cleanup(1)
  \/ i_except(1)
  \/ InstallReturn

InstallSpec == InstallInit /\ [][InstallNext]_vars

\* ------------------------------------------------------------------------
\* Properties of install_update
\* ------------------------------------------------------------------------

\* install_update has returned to its caller, who found a complete bundle
\* installed when calling
Returned(t) == pc[t] = "i_done" /\ gh[t].pre \in Bundles

\* C2: when install_update returns, with either result and either value of
\* backup_current, and no restore step of the call failed, the canonical path
\* holds one complete bundle: the new one or the one installed before.
C2_OneCompleteBundle ==
  (Returned(1) /\ ~gh[1].restoreFailed)
    => canonical \in ({gh[1].pre} \cup ({gh[1].newc} \cap Bundles))

\* C3: if moving the new bundle into the canonical path fails after the
\* original was moved aside, install_update returns False and the canonical
\* path holds the original bundle.
C3_SwapFailureRestores ==
  (Returned(1) /\ gh[1].failStage = "movein")
    => canonical = gh[1].pre /\ loc[1].success = "False"

\* C4: if the backup, the extraction or the search for the bundle fails,
\* install_update does not delete, move or copy anything at the canonical
\* path, tries no rollback, and returns False with the bundle untouched.
C4_EarlyFailureTouchesNothing ==
  (Returned(1) /\ gh[1].failStage \in {"backup", "extract", "find"})
    => /\ ~gh[1].touched
       /\ ~gh[1].rollback
       /\ canonical = gh[1].pre
       /\ loc[1].success = "False"

\* ------------------------------------------------------------------------
\* UpdateManager  (update_manager.py).  The callbacks of the menu and of the
\* timers run on the main thread, one at a time; a check started by a timer
\* runs there to its end, checks and updates started from the menu run on
\* threads of their own.  With `alone`, the user and the timers start a
\* pipeline only when none is running.
\* ------------------------------------------------------------------------

AllIdle == \A p \in Procs : pc[p] = "idle"

MainIdle == ~quit /\ pc[0] = "idle"

MayStart(alone) == alone => AllIdle

RunBound(alone) == IF alone THEN MaxScenarioRuns ELSE MaxRuns

\* finally: self.update_in_progress = False, whether or not the body raised
FlagClearedUnlessRaised(raised) ==
  IF raised THEN update_in_progress ELSE FALSE

\* finally: self.update_in_progress = False
FinallyFlag(raised) == FALSE

PropagatesCallbackError(raises) == raises

\* _show_notification: whether an exception leaves the call when the
\* callback raises; try ... except Exception: self.logger.error(...)
_show_notification(raises) == FALSE

manual_check_updates(alone) ==
  /\ MainIdle
  /\ MayStart(alone)
  /\ IF update_in_progress
     THEN /\ lastNote' = Note("Update Check", "Update check already in progress")
          /\ UNCHANGED <<pc, loc, started>>
     ELSE \E t \in Threads, raises \in BOOLEAN :
            /\ pc[t] = "idle"
            /\ started < RunBound(alone)
            /\ lastNote' = Note("Checking Updates", "Checking for new versions...")
            /\ IF _show_notification(raises)
               THEN UNCHANGED <<pc, loc, started>>
               ELSE /\ started' = started + 1
                    /\ pc' = [pc EXCEPT ![t] = "c_begin"]
                    /\ loc' = [loc EXCEPT ![t].show = TRUE,
                                          ![t].skipped_before = skipped,
                                          ![t].callback_raised = raises]
  /\ UNCHANGED <<cacheVars, diskVars, gh, update_in_progress, available_update,
                 last_check_time, check_updates, timers, quit, fatalOutcomes,
                 recoveredOutcomes>>
  /\ UNCHANGED <<ioVars, skipped>>

\* a timer of setup_periodic_checks calls check_for_updates_background with
\* itself as the argument, which is true as show_no_update_notification
timer_fires(alone) ==
  /\ MainIdle
  /\ MayStart(alone)
  /\ timers
  /\ started < RunBound(alone)
  /\ started' = started + 1
  /\ pc' = [pc EXCEPT ![0] = "c_begin"]
  /\ loc' = [loc EXCEPT ![0].show = TRUE, ![0].skipped_before = skipped]
  /\ UNCHANGED <<cacheVars, diskVars, gh, update_in_progress, available_update,
                 last_check_time, check_updates, timers, lastNote, quit,
                 fatalOutcomes, recoveredOutcomes>>
  /\ UNCHANGED <<ioVars, skipped>>

ChecksNeverDisabled(setting) == FALSE

\* check_for_updates_background: if not ...behavior.check_updates
ChecksDisabled(setting) == ~setting

\* check_for_updates_background up to self.update_in_progress = True
c_begin(p) ==
  /\ ~quit
  /\ pc[p] = "c_begin"
  /\ IF ChecksDisabled(check_updates)
     THEN /\ update_in_progress' = FinallyFlag(FALSE)
          /\ pc' = [pc EXCEPT ![p] = "idle"]
          /\ loc' = [loc EXCEPT ![p] = InitLoc]
     ELSE /\ update_in_progress' = TRUE
          /\ pc' = [pc EXCEPT ![p] = "c_fetch"]
          /\ loc' = loc
  /\ UNCHANGED <<cacheVars, diskVars, gh, available_update, last_check_time,
                 check_updates, timers, lastNote, quit, fatalOutcomes,
                 recoveredOutcomes, started>>
  /\ UNCHANGED <<ioVars, skipped>>

\* another call is inside the with statement of _cache_release
CacheOpenElsewhere(p) == \E q \in Procs \ {p} : pc[q] = "c_cache"

\* release = self.updater.check_for_updates(force_check=True), up to its
\* return or to the opening of the cache file for writing
c_fetch(p) ==
  /\ ~quit
  /\ pc[p] = "c_fetch"
  /\ \E answer \in RemoteAnswers, write_io \in WriteOutcomes :
       \E r \in {check_for_updates(TRUE, cache_file, now, current_version,
                                    answer, "ok", write_io)} :
          IF r.value # None /\ r.value # Raised /\ write_io # "open_fails"
          THEN \* _cache_release: open(self.cache_file, 'w') has truncated
               \* the file, json.dump is still to come
               /\ cache_file' = MalformedFile
               /\ loc' = [q \in Procs |->
                            IF q = p
                            THEN [loc[p] EXCEPT
                                    !.fetched = r.value, !.answer = answer,
                                    !.write_io = write_io,
                                    !.overlapped = CacheOpenElsewhere(p)]
                            ELSE IF pc[q] = "c_cache"
                            THEN [loc[q] EXCEPT !.overlapped = TRUE]
                            ELSE loc[q]]
               /\ pc' = [pc EXCEPT ![p] = "c_cache"]
          ELSE /\ cache_file' = r.file
               /\ loc' = [loc EXCEPT ![p].fetched = r.value,
                                     ![p].answer = answer]
               /\ pc' = [pc EXCEPT ![p] = "c_result"]
  /\ UNCHANGED <<now, current_version, cached_result, lastOp, diskVars, gh,
                 mgrVars>>
  /\ UNCHANGED ioVars

\* _cache_release: json.dump and the end of the with statement, and the
\* return of check_for_updates.  Two calls that wrote the file at the same
\* time leave either a complete entry or a file that is no JSON
c_cache(p) ==
  /\ ~quit
  /\ pc[p] = "c_cache"
  /\ \E written \in {_cache_release(cache_file, loc[p].fetched, now,
                                     loc[p].write_io)}
                       \cup (IF loc[p].overlapped THEN {MalformedFile}
                             ELSE {}) :
       cache_file' = written
  /\ pc' = [pc EXCEPT ![p] = "c_result"]
  /\ UNCHANGED <<now, current_version, cached_result, lastOp, diskVars, loc,
                 gh, mgrVars>>
  /\ UNCHANGED ioVars

\* the notification of _show_update_available_notification
UpdateAvailableNote(update_type) ==
  IF update_type = "major"
  THEN Note("Major Update Available", "is available with new features!")
  ELSE IF update_type = "minor"
  THEN Note("Update Available", "is available with improvements!")
  ELSE Note("Update Available", "is available with bug fixes!")

ClearedAfterCheck(fetched, available) ==
  IF fetched = Raised THEN None ELSE fetched

\* check_for_updates_background: self.available_update = release, or = None;
\* the except branch does not assign it
AvailableAfterCheck(fetched, available) ==
  IF fetched = Raised THEN available ELSE fetched

\* check_for_updates_background from the returned release to the end of the
\* try statement, or its except branch
c_result(p) ==
  /\ ~quit
  /\ pc[p] = "c_result"
  /\ \E raises \in (IF loc[p].show \/ loc[p].fetched \notin {Raised, None}
                     THEN BOOLEAN ELSE {FALSE}) :
       /\ IF loc[p].fetched = Raised
          THEN /\ lastNote' = IF loc[p].show
                              THEN Note("Update Check Failed", "Could not check for updates")
                              ELSE lastNote
               /\ last_check_time' = last_check_time
               /\ available_update' =
                    AvailableAfterCheck(loc[p].fetched, available_update)
          ELSE /\ last_check_time' = [at |-> now]
               /\ available_update' =
                    AvailableAfterCheck(loc[p].fetched, available_update)
               /\ lastNote' =
                    IF _show_notification(raises) /\ loc[p].show
                    THEN \* the except branch
                         Note("Update Check Failed", "Could not check for updates")
                    ELSE IF loc[p].fetched # None
                    THEN UpdateAvailableNote(
                           get_update_type(current_version,
                                           release_version(loc[p].fetched)))
                    ELSE IF loc[p].show
                    THEN Note("Up to Date", "You have the latest version")
                    ELSE lastNote
       /\ loc' = [loc EXCEPT ![p].callback_raised = raises]
  /\ pc' = [pc EXCEPT ![p] = "c_finally"]
  /\ UNCHANGED <<cacheVars, diskVars, gh, update_in_progress,
                 check_updates, timers, quit, fatalOutcomes, recoveredOutcomes, started>>
  /\ UNCHANGED <<ioVars, skipped>>

\* check_for_updates_background: finally
c_finally(p) ==
  /\ ~quit
  /\ pc[p] = "c_finally"
  /\ update_in_progress' = FinallyFlag(loc[p].fetched = Raised)
  /\ pc' = [pc EXCEPT ![p] = "idle"]
  /\ loc' = [loc EXCEPT ![p] = InitLoc]
  /\ UNCHANGED <<cacheVars, diskVars, gh, available_update, last_check_time,
                 check_updates, timers, lastNote, quit, fatalOutcomes,
                 recoveredOutcomes, started>>
  /\ UNCHANGED <<ioVars, skipped>>

\* start_update_process, with "Update Now" chosen in the dialog
start_update_process(alone) ==
  /\ MainIdle
  /\ MayStart(alone)
  /\ available_update # None
  /\ IF update_in_progress
     THEN /\ lastNote' = Note("Update in Progress", "Update is already in progress")
          /\ UNCHANGED <<pc, started>>
     ELSE \E t \in Threads :
            /\ pc[t] = "idle"
            /\ started < RunBound(alone)
            /\ started' = started + 1
            /\ pc' = [pc EXCEPT ![t] = "u_begin"]
            /\ lastNote' = lastNote
  /\ UNCHANGED <<cacheVars, diskVars, loc, gh, update_in_progress,
                 available_update, last_check_time, check_updates, timers,
                 quit, fatalOutcomes, recoveredOutcomes>>
  /\ UNCHANGED <<ioVars, skipped>>

\* update_process: the flag, release = self.available_update, and the
\* first notification (release.version raises if there is no release)
u_begin(t) ==
  /\ ~quit
  /\ pc[t] = "u_begin"
  /\ update_in_progress' = TRUE
  /\ IF available_update = None
     THEN /\ loc' = [loc EXCEPT ![t].message = "AttributeError"]
          /\ gh' = [gh EXCEPT ![t].class = "intact"]
          /\ pc' = [pc EXCEPT ![t] = "u_except"]
          /\ lastNote' = lastNote
     ELSE \E raises \in BOOLEAN :
            /\ lastNote' = Note("Downloading Update", "Downloading...")
            /\ IF _show_notification(raises)
               THEN /\ loc' = [loc EXCEPT ![t].release = available_update,
                                          ![t].callback_raised = raises,
                                          ![t].message = "callback error"]
                    /\ gh' = [gh EXCEPT ![t].class = "intact"]
                    /\ pc' = [pc EXCEPT ![t] = "u_except"]
               ELSE /\ loc' = [loc EXCEPT ![t].release = available_update,
                                          ![t].callback_raised = raises]
                    /\ gh' = gh
                    /\ pc' = [pc EXCEPT ![t] = "u_download"]
  /\ UNCHANGED <<cacheVars, diskVars, available_update, last_check_time,
                 check_updates, timers, quit, fatalOutcomes, recoveredOutcomes, started>>
  /\ UNCHANGED <<ioVars, skipped>>

RetryDownload == "u_download"

InstallAnyway == "i_start"

\* update_process: if not download_path: raise Exception("Download failed")
AfterFailedDownload == "u_except"

\* download_path = self.updater.download_update(release, progress_callback);
\* None is returned for any exception in it.  Then install_update is called
\* with backup_current=True
u_download(t) ==
  /\ ~quit
  /\ pc[t] = "u_download"
  /\ \/ \E served \in ServedArchives, raises \in BOOLEAN :
          /\ lastNote' = Note("Installing Update", "Installing update...")
          /\ IF _show_notification(raises)
             THEN /\ loc' = [loc EXCEPT ![t].download = served,
                                        ![t].downloads = @ + 1,
                                        ![t].have_path = TRUE,
                                        ![t].callback_raised = raises,
                                        ![t].message = "callback error"]
                  /\ gh' = [gh EXCEPT ![t].class = "intact"]
                  /\ pc' = [pc EXCEPT ![t] = "u_except"]
             ELSE /\ loc' = [loc EXCEPT ![t].download = served,
                                        ![t].downloads = @ + 1,
                                        ![t].have_path = TRUE,
                                        ![t].backup_current = TRUE,
                                        ![t].callback_raised = raises]
                  /\ gh' = [gh EXCEPT ![t].pre = canonical, ![t].newc = served]
                  /\ pc' = [pc EXCEPT ![t] = "i_start"]
     \/ \E left \in {"none", "partial"}, progress \in BOOLEAN :
          \E raises \in (IF progress THEN BOOLEAN ELSE {FALSE}) :
            /\ loc' = [loc EXCEPT ![t].download = left,
                                  ![t].downloads = @ + 1,
                                  ![t].message = "Download failed",
                                  ![t].callback_raised =
                                    IF progress THEN raises ELSE @]
            /\ gh' = [gh EXCEPT ![t].class = "intact"]
            /\ lastNote' = IF progress
                           THEN Note("Download Progress", "Download complete in part")
                           ELSE lastNote
            /\ pc' = [pc EXCEPT ![t] = AfterFailedDownload]
  /\ UNCHANGED <<cacheVars, diskVars, update_in_progress, available_update,
                 last_check_time, check_updates, timers, quit, fatalOutcomes,
                 recoveredOutcomes, started>>
  /\ UNCHANGED <<ioVars, skipped>>

\* what a failed install_update left: the original could not be restored,
\* or it is in place
InstallClass(g, bundle) ==
  IF g.lastRestore = "failed" THEN "fatal"
  ELSE IF bundle = g.pre THEN "intact"
  ELSE "other"

\* update_process after install_update has returned
u_installed(t) ==
  /\ ~quit
  /\ pc[t] = "i_done"
  /\ IF loc[t].success = "True"
     THEN \E choice \in {"restart", "restart_fails", "later"} :
            IF choice = "restart"
            THEN \* _restart_application: rumps.quit_application()
                 /\ quit' = TRUE
                 /\ UNCHANGED <<pc, loc, gh, available_update, lastNote>>
            ELSE \E raises \in BOOLEAN :
                   /\ lastNote' =
                        IF choice = "later"
                        THEN Note("Update Complete", "Restart when convenient")
                        ELSE Note("Restart Failed", "Please restart manually")
                   /\ IF _show_notification(raises)
                      THEN /\ loc' = [loc EXCEPT ![t].callback_raised = raises,
                                                 ![t].message = "callback error"]
                           /\ available_update' = available_update
                           /\ pc' = [pc EXCEPT ![t] = "u_except"]
                      ELSE /\ loc' = [loc EXCEPT ![t].callback_raised = raises]
                           /\ available_update' = None
                           /\ pc' = [pc EXCEPT ![t] = "u_finally"]
                   /\ UNCHANGED <<gh, quit>>
     ELSE /\ loc' = [loc EXCEPT ![t].message = "Installation failed"]
          /\ gh' = [gh EXCEPT ![t].class = InstallClass(gh[t], canonical)]
          /\ pc' = [pc EXCEPT ![t] = "u_except"]
          /\ UNCHANGED <<available_update, lastNote, quit>>
  /\ UNCHANGED <<cacheVars, diskVars, update_in_progress, last_check_time,
                 check_updates, timers, fatalOutcomes, recoveredOutcomes, started>>
  /\ UNCHANGED <<ioVars, skipped>>

\* update_process: except Exception as e
u_except(t) ==
  /\ ~quit
  /\ pc[t] = "u_except"
  /\ lastNote' = Note("Update Failed", loc[t].message)
  /\ LET outcome == [result |-> loc[t].success, message |-> loc[t].message]
     IN /\ fatalOutcomes' = IF gh[t].class = "fatal"
                            THEN fatalOutcomes \cup {outcome} ELSE fatalOutcomes
        /\ recoveredOutcomes' = IF gh[t].class = "intact"
                                THEN recoveredOutcomes \cup {outcome}
                                ELSE recoveredOutcomes
  /\ \E raises \in BOOLEAN :
       loc' = [loc EXCEPT ![t].callback_raised = raises]
  /\ pc' = [pc EXCEPT ![t] = "u_finally"]
  /\ UNCHANGED <<cacheVars, diskVars, gh, update_in_progress,
                 available_update, last_check_time, check_updates, timers, quit,
                 started>>
  /\ UNCHANGED <<ioVars, skipped>>

\* update_process: finally
u_finally(t) ==
  /\ ~quit
  /\ pc[t] = "u_finally"
  /\ update_in_progress' = FinallyFlag(loc[t].message # "")
  /\ pc' = [pc EXCEPT ![t] = "idle"]
  /\ loc' = [loc EXCEPT ![t] = InitLoc]
  /\ gh' = [gh EXCEPT ![t] = InitGh]
  /\ UNCHANGED <<cacheVars, diskVars, available_update, last_check_time,
                 check_updates, timers, lastNote, quit, fatalOutcomes,
                 recoveredOutcomes, started>>
  /\ UNCHANGED <<ioVars, skipped>>

\* skip_version, with "Skip" chosen in the dialog
skip_version ==
  /\ MainIdle
  /\ available_update # None
  /\ available_update' = None
  /\ skipped' = skipped \cup {available_update.tag_name}
  /\ lastNote' = Note("Version Skipped", "This version will be skipped")
  /\ UNCHANGED <<cacheVars, diskVars, callVars, update_in_progress,
                 last_check_time, check_updates, timers, quit, fatalOutcomes,
                 recoveredOutcomes, started>>
  /\ UNCHANGED ioVars

\* show_update_settings, with "Toggle Setting" chosen in the dialog
show_update_settings ==
  /\ MainIdle
  /\ check_updates' = ~check_updates
  /\ timers' = (timers \/ ~check_updates)
  /\ lastNote' = Note("Settings Updated",
                      IF check_updates THEN "disabled" ELSE "enabled")
  /\ UNCHANGED <<cacheVars, diskVars, callVars, update_in_progress,
                 available_update, last_check_time, quit, fatalOutcomes,
                 recoveredOutcomes, started>>
  /\ UNCHANGED <<ioVars, skipped>>

\* ------------------------------------------------------------------------
\* The application: UpdateManager with its updater
\* ------------------------------------------------------------------------

Init ==
  /\ now = 0
  /\ cache_file = NoFile
  /\ current_version = CURRENT_VERSION
  /\ cached_result = None
  /\ lastOp = [op |-> "init"]
  /\ canonical = "A"
  /\ temp_old = "none"
  /\ pc = [p \in Procs |-> "idle"]
  /\ loc = [p \in Procs |-> InitLoc]
  /\ gh = [p \in Procs |-> InitGh]
  /\ ManagerConstructed
  /\ UpdaterIdle

Next ==
  \/ manual_check_updates(FALSE)
  \/ timer_fires(FALSE)
  \/ start_update_process(FALSE)
  \/ skip_version
  \/ show_update_settings
  \/ \E p \in Procs : c_begin(p)
  \/ \E p \in Procs : c_fetch(p)
  \/ \E p \in Procs : c_cache(p)
  \/ \E p \in Procs : c_result(p)
  \/ \E p \in Procs : c_finally(p)
  \/ \E t \in Threads : u_begin(t)
  \/ \E t \in Threads : u_download(t)
  \/ \E t \in Threads : i_start(t)
  \/ \E t \in Threads : i_backup(t)
  \/ \E t \in Threads : i_extract(t)
  \/ \E t \in Threads : r_clean(t)
  \/ \E t \in Threads : r_aside(t)
  \/ \E t \in Threads : r_movein(t)
  \/ \E t \in Threads : r_rm_old(t)
  \/ \E t \in Threads : r_rollback(t)
  \/ \E t \in Threads : i_cleanup(t)
  \/ \E t \in Threads : i_except(t)
  \/ \E t \in Threads : u_installed(t)
  \/ \E t \in Threads : u_except(t)
  \/ \E t \in Threads : u_finally(t)

Spec == Init /\ [][Next]_vars

\* ------------------------------------------------------------------------
\* The application when the user and the timers start a pipeline only while
\* none is running.  A thread inside install_update runs on until the call
\* returns.
\* ------------------------------------------------------------------------

\* a step of a running install_update call
InstallStep ==
  \E t \in Threads :
    \/ i_start(t) \/ i_backup(t) \/ i_extract(t)
    \/ r_clean(t) \/ r_aside(t) \/ r_movein(t) \/ r_rm_old(t)
    \/ r_rollback(t) \/ i_cleanup(t) \/ i_except(t)

ScenarioNext ==
  \/ manual_check_updates(TRUE)
  \/ timer_fires(TRUE)
  \/ start_update_process(TRUE)
  \/ skip_version
  \/ show_update_settings
  \/ \E p \in Procs : c_begin(p)
  \/ \E p \in Procs : c_fetch(p)
  \/ \E p \in Procs : c_cache(p)
  \/ \E p \in Procs : c_result(p)
  \/ \E p \in Procs : c_finally(p)
  \/ \E t \in Threads : u_begin(t)
  \/ \E t \in Threads : u_download(t)
  \/ \E t \in Threads : i_start(t)
  \/ \E t \in Threads : i_backup(t)
  \/ \E t \in Threads : i_extract(t)
  \/ \E t \in Threads : r_clean(t)
  \/ \E t \in Threads : r_aside(t)
  \/ \E t \in Threads : r_movein(t)
  \/ \E t \in Threads : r_rm_old(t)
  \/ \E t \in Threads : r_rollback(t)
  \/ \E t \in Threads : i_cleanup(t)
  \/ \E t \in Threads : i_except(t)
  \/ \E t \in Threads : u_installed(t)
  \/ \E t \in Threads : u_except(t)
  \/ \E t \in Threads : u_finally(t)

ScenarioSpec == Init /\ [][ScenarioNext]_vars /\ WF_vars(InstallStep)

\* ------------------------------------------------------------------------
\* Properties of the UpdateManager
\* ------------------------------------------------------------------------

Running == {p \in Procs : pc[p] # "idle"}

\* C1: in every interleaving of manual checks, timer checks and update
\* starts, at most one pipeline (a check or a download and install) is
\* executing at any time.
C1_SingleFlight == Cardinality(Running) <= 1

\* C5: what the caller of install_update and the user are told when restoring
\* the original bundle failed differs from what they are told by every
\* failure that left the original bundle in place.
C5_FatalIsDistinct == fatalOutcomes \cap recoveredOutcomes = {}

\* a pipeline of process p ends in this step
RunEnds(p) == pc[p] # "idle" /\ pc'[p] = "idle"

\* C6: whenever a check or an update ends, normally or by an exception at
\* any stage, update_in_progress is False afterwards, and it is never True
\* while no pipeline is running.
C6_FlagClearedAtEnd ==
  /\ [](AllIdle => ~update_in_progress)
  /\ [][(\E p \in Procs : RunEnds(p)) => ~update_in_progress']_vars

\* an update has ended by an exception, nothing is running, the flag is off
C6_Witness ==
  /\ AllIdle
  /\ lastNote.title = "Update Failed"
  /\ fatalOutcomes \cup recoveredOutcomes # {}
  /\ ~update_in_progress

\* what discovery gives for the release host's answer "1.2.0, one asset"
DiscoveredNewer(p) ==
  /\ loc[p].fetched = _parse_release_data(DataNewer)
  /\ release_version(loc[p].fetched) = Version(1, 2, 0, NoneStr, NoneStr)
  /\ loc[p].fetched.download_url = "https://asset.zip"
  /\ loc[p].fetched.size_bytes = 1048576
  /\ get_update_type(current_version, release_version(loc[p].fetched)) = "minor"

\* install_update has returned True with the new bundle installed, the
\* backup kept, and the extraction directory and the downloaded file gone
InstalledClean(t) ==
  /\ loc[t].success = "True"
  /\ gh[t].newc \in Bundles
  /\ canonical = gh[t].newc
  /\ loc[t].backup = gh[t].pre
  /\ loc[t].extract = "none"
  /\ loc[t].download = "none"

\* C7: with version 1.0.0 installed and 1.2.0 with one matching asset on the
\* release host, and no step failing: discovery returns that release, a minor
\* update; the download gives a file; install_update eventually returns, and
\* returns True with the new bundle at the canonical path, the backup kept,
\* and the extraction directory and the downloaded file removed.
C7_HappyPath ==
  /\ [](\A p \in Procs :
          (pc[p] = "c_result" /\ loc[p].answer = [kind |-> "release", data |-> DataNewer])
            => DiscoveredNewer(p))
  /\ [](\A t \in Threads : pc[t] = "i_start" => loc[t].have_path)
  /\ \A t \in Threads :
       (pc[t] = "i_start")
         ~> (pc[t] = "i_done" /\ (gh[t].failStage = "none" => InstalledClean(t)))

\* the update to 1.2.0 was found and installed with no step failing
C7_Witness ==
  \E t \in Threads :
    /\ pc[t] = "i_done"
    /\ gh[t].failStage = "none"
    /\ gh[t].pre = "A"
    /\ loc[t].release = _parse_release_data(DataNewer)
    /\ InstalledClean(t)

\* ------------------------------------------------------------------------
\* GitHubUpdater.check_for_updates step by step: the retry wrappers, each
\* request to the release host, both modes of the updater
\* ------------------------------------------------------------------------

\* @retry_on_error(max_retries=3, delay=1.0) on check_for_updates
OuterMaxRetries == 3

OuterDelay == 1

\* @retry_on_error(max_retries=2, delay=2.0) on the two fetch functions
InnerMaxRetries == 2

InnerDelay == 2

\* retry_on_error: backoff_multiplier
BackoffMultiplier == 2

\* the wrapper raises one attempt later
GivesUpLater(attempt, max_retries) == attempt = max_retries + 1

\* the wrapper raises one attempt sooner
GivesUpEarlier(attempt, max_retries) == attempt + 1 >= max_retries

\* retry_on_error: if attempt == max_retries: raise
GivesUp(attempt, max_retries) == attempt = max_retries

SameDelay(current_delay) == current_delay

\* retry_on_error: current_delay *= backoff_multiplier
NextDelay(current_delay) == current_delay * BackoffMultiplier

\* the cache is read whatever force_check is
AlwaysReadsCache(force_check) == TRUE

\* check_for_updates: if not force_check
ReadsCache(force_check) == ~force_check

\* a failed write raises out of _cache_release
CacheWriteRaisesOnFailure(outcome) == outcome # "ok"

\* _cache_release: its except branch logs and returns, so nothing is raised
CacheWriteRaises(outcome) == FALSE

\* a release as new as the current version counts as an update
NotOlder(version, current) == ~VersionLt(version, current)

\* check_for_updates: if release.version > self.current_version
Newer(version, current) == VersionGt(version, current)

\* the release host's JSON for release 0.9.0
DataOlder == [DataEqual EXCEPT !.tag_name = TagOlder]

\* the release host's JSON for a release whose tag is no version
DataInvalidTag == [DataEqual EXCEPT !.tag_name = TagInvalid]

\* the release host's JSON for prerelease 1.0.1-rc
DataNextRc == [DataEqual EXCEPT !.tag_name = TagNextRc, !.prerelease = TRUE]

\* a JSON object with no tag_name
DataNoTag == [name |-> "Release", body |-> "notes", assets |-> <<>>]

\* the keys _parse_release_data reads with data[...]
RequiredKeys == {"tag_name", "name", "published_at", "html_url"}

\* what one request to <releases_url>/latest may meet: a 200 answer with a
\* JSON object, another status that urlopen returns, HTTPError 404, another
\* HTTPError, no connection or a timeout, a 200 answer that is no JSON
StableAnswers ==
  {[kind |-> "ok", data |-> d] :
     d \in {DataNewer, DataEqual, DataOlder, DataInvalidTag, DataNoTag}}
    \cup {[kind |-> k] :
            k \in {"status", "http_404", "http_error", "net_error", "bad_json"}}

\* what one request to <releases_url>?per_page=10 may meet
PrereleaseAnswers ==
  {[kind |-> "ok", data |-> l] :
     l \in {<<>>, <<DataNextRc, DataNewer>>, <<DataEqual, DataNewer>>}}
    \cup {[kind |-> k] :
            k \in {"status", "http_404", "http_error", "net_error", "bad_json"}}

\* _fetch_latest_stable_release for one request: 200 gives the object, another
\* status and HTTPError 404 give None, everything else raises
_fetch_latest_stable_release(answer) ==
  IF answer.kind = "ok" THEN [raised |-> FALSE, value |-> answer.data]
  ELSE IF answer.kind \in {"status", "http_404"}
  THEN [raised |-> FALSE, value |-> None]
  ELSE [raised |-> TRUE, value |-> None]

\* _fetch_all_releases for one request: 200 gives the list, another status
\* gives None, everything else (HTTPError 404 too) raises
_fetch_all_releases(answer) ==
  IF answer.kind = "ok" THEN [raised |-> FALSE, value |-> answer.data]
  ELSE IF answer.kind = "status" THEN [raised |-> FALSE, value |-> None]
  ELSE [raised |-> TRUE, value |-> None]

LastOf(release_data) == release_data[Len(release_data)]

\* check_for_updates: latest_data = release_data[0]
LatestOf(release_data) == release_data[1]

\* the inner retry wrapper is entered for a new fetch call
EnterFetch(d) ==
  [d EXCEPT !.pc = "fetch", !.inner_attempt = 0, !.inner_delay = InnerDelay,
            !.inner_slept = <<>>]

\* check_for_updates(force_check) is called; the outer wrapper starts
d_call ==
  /\ dc.pc \in {"idle", "done"}
  /\ \E force_check \in BOOLEAN :
       dc' = [InitDc EXCEPT !.pc = "body",
                            !.force_check = force_check,
                            !.check_prereleases = dc.check_prereleases,
                            !.outer_delay = OuterDelay]
  /\ UNCHANGED <<cacheVars, diskVars, callVars, mgrVars, dl, vm, wr>>

\* one attempt of check_for_updates begins: the cache, unless forced
d_body ==
  /\ dc.pc = "body"
  /\ IF ReadsCache(dc.force_check)
     THEN \E io \in ReadOutcomes :
            \E cached_release \in
                 {_get_cached_release(cache_file, now, current_version, io)} :
              LET d == [dc EXCEPT !.cache_reads = @ + 1, !.read_io = io]
              IN IF cached_release # None
                 THEN dc' = [d EXCEPT !.pc = "done", !.value = cached_release,
                                      !.from_cache = TRUE]
                 ELSE dc' = EnterFetch(d)
     ELSE dc' = EnterFetch(dc)
  /\ UNCHANGED <<cacheVars, diskVars, callVars, mgrVars, dl, vm, wr>>

\* one attempt of the fetch function: one request, then its result, a sleep
\* and another attempt, or its exception once the attempts are used up
d_request ==
  /\ dc.pc = "fetch"
  /\ \E answer \in IF dc.check_prereleases THEN PrereleaseAnswers
                   ELSE StableAnswers :
       LET fetched == IF dc.check_prereleases THEN _fetch_all_releases(answer)
                      ELSE _fetch_latest_stable_release(answer)
           d == [dc EXCEPT !.requests = @ + 1, !.answer = answer]
       IN IF fetched.raised
          THEN IF GivesUp(dc.inner_attempt, InnerMaxRetries)
               THEN dc' = [d EXCEPT !.pc = "outer_failed"]
               ELSE dc' = [d EXCEPT !.inner_slept = Append(@, dc.inner_delay),
                                    !.inner_delay = NextDelay(@),
                                    !.inner_attempt = @ + 1]
          ELSE IF fetched.value = None \/ fetched.value = <<>>
          THEN \* if not release_data / if not latest_data: return None
               dc' = [d EXCEPT !.pc = "done", !.value = None]
          ELSE dc' = [d EXCEPT !.pc = "parse",
                               !.data = IF dc.check_prereleases
                                        THEN LatestOf(fetched.value)
                                        ELSE fetched.value]
  /\ UNCHANGED <<cacheVars, diskVars, callVars, mgrVars, dl, vm, wr>>

\* the release objects the release host can answer with that have every key
\* _parse_release_data reads
ParsableData == {DataNewer, DataEqual, DataOlder, DataInvalidTag, DataNextRc}

\* _parse_release_data of each of them, computed once
ParsedRelease == [data \in ParsableData |-> _parse_release_data(data)]

\* release.version of each of them, computed once
ParsedVersion == [data \in ParsableData |-> release_version(ParsedRelease[data])]

\* _parse_release_data, release.version, the comparison with the current
\* version, _cache_release and the return
d_parse ==
  /\ dc.pc = "parse"
  /\ IF ~(RequiredKeys \subseteq DOMAIN dc.data)
     THEN \* KeyError
          /\ dc' = [dc EXCEPT !.pc = "outer_failed"]
          /\ cache_file' = cache_file
     ELSE \E release \in {ParsedRelease[dc.data]} :
            \E version \in {ParsedVersion[dc.data]} :
              IF version = ValueError
              THEN /\ dc' = [dc EXCEPT !.pc = "outer_failed"]
                   /\ cache_file' = cache_file
              ELSE IF Newer(version, current_version)
              THEN \E outcome \in WriteOutcomes :
                     \E written \in {_cache_release(cache_file, release, now, outcome)} :
                       /\ cache_file' = written
                       /\ dc' = IF CacheWriteRaises(outcome)
                                THEN [dc EXCEPT !.pc = "outer_failed"]
                                ELSE [dc EXCEPT !.pc = "done", !.value = release]
              ELSE /\ dc' = [dc EXCEPT !.pc = "done", !.value = None]
                   /\ cache_file' = cache_file
  /\ UNCHANGED <<now, current_version, cached_result, lastOp>>
  /\ UNCHANGED <<diskVars, callVars, mgrVars, dl, vm, wr>>

\* the outer wrapper has caught the exception of an attempt: a sleep and
\* another attempt, or the exception goes to the caller
d_outer_failed ==
  /\ dc.pc = "outer_failed"
  /\ IF GivesUp(dc.outer_attempt, OuterMaxRetries)
     THEN dc' = [dc EXCEPT !.pc = "done", !.value = Raised]
     ELSE dc' = [dc EXCEPT !.pc = "body",
                           !.outer_slept = Append(@, dc.outer_delay),
                           !.outer_delay = NextDelay(@),
                           !.outer_attempt = @ + 1]
  /\ UNCHANGED <<cacheVars, diskVars, callVars, mgrVars, dl, vm, wr>>

\* an updater of either mode, with whatever cache file an earlier run left
DiscoveryInit ==
  /\ now = 0
  /\ cache_file \in InitialCacheFiles
  /\ current_version \in CurrentVersions
  /\ cached_result = None
  /\ lastOp = [op |-> "init"]
  /\ canonical = "A"
  /\ temp_old = "none"
  /\ pc = [p \in Procs |-> "idle"]
  /\ loc = [p \in Procs |-> InitLoc]
  /\ gh = [p \in Procs |-> InitGh]
  /\ ManagerConstructed
  /\ dl = InitDl
  /\ vm = InitVm
  /\ wr = InitWr
  /\ \E check_prereleases \in BOOLEAN :
       dc = [InitDc EXCEPT !.check_prereleases = check_prereleases]

\* a step of a running check_for_updates call
DiscoveryStep == d_body \/ d_request \/ d_parse \/ d_outer_failed

DiscoveryNext ==
  \/ Tick
  \/ d_call
  \/ d_body
  \/ d_request
  \/ d_parse
  \/ d_outer_failed

\* a call of check_for_updates runs on until it returns or raises
DiscoverySpec == DiscoveryInit /\ [][DiscoveryNext]_vars /\ WF_vars(DiscoveryStep)

\* ------------------------------------------------------------------------
\* Properties of check_for_updates
\* ------------------------------------------------------------------------

\* the call in progress has returned or raised
Done == dc.pc = "done"

\* what the last request of a call amounts to for check_for_updates: an
\* error, no release, or the JSON object of one release
Decisive(check_prereleases, answer) ==
  LET fetched == IF check_prereleases THEN _fetch_all_releases(answer)
                 ELSE _fetch_latest_stable_release(answer)
      data == IF check_prereleases THEN fetched.value[1] ELSE fetched.value
  IN IF fetched.raised THEN [kind |-> "error"]
     ELSE IF fetched.value = None \/ fetched.value = <<>> THEN [kind |-> "not_found"]
     ELSE IF ~(RequiredKeys \subseteq DOMAIN data) THEN [kind |-> "error"]
     ELSE [kind |-> "release", data |-> data]

\* what check_for_updates gives for that answer when there is no cache file
\* and the cache can be written
ResultWithoutCache ==
  check_for_updates(dc.force_check, NoFile, now, current_version,
                    Decisive(dc.check_prereleases, dc.answer), "ok", "ok").value

\* C11: cache I/O failures are never fatal: when the cache file is missing,
\* malformed or unreadable the call goes on to the release host, and whether
\* or not the cache can be written it returns what it would return with no
\* cache at all.
C11_CacheFailuresNotFatal ==
  /\ [][(dc.pc = "body" /\ dc'.pc # "body" /\ ~dc.force_check
           /\ (~ValidEntry(cache_file) \/ dc'.read_io # "ok"))
          => dc'.pc = "fetch" /\ dc'.value = None]_vars
  /\ [](Done /\ ~dc.from_cache => dc.value = ResultWithoutCache)

\* the cache could not be read, the release host had a newer release, the
\* cache could not be written, and the release was returned
C11_Witness ==
  /\ Done
  /\ dc.read_io = "error"
  /\ dc.value \notin {None, Raised}
  /\ cache_file.kind # "entry"

\* the cache file holds an entry that is loadable, fresh and newer
ValidCacheEntry ==
  /\ ValidEntry(cache_file)
  /\ now - cache_file.cached_at <= CacheDurationHours
  /\ IsNewerRelease(ReleaseFromDict(cache_file.release))

\* C12: with force_check false and a valid cache entry, check_for_updates
\* returns the cached release and issues no remote request; with force_check
\* true it never reads the cache and always issues a remote request.
C12_ForceCheckAndCache ==
  /\ [](Done /\ dc.force_check => dc.cache_reads = 0 /\ dc.requests >= 1)
  /\ [][(dc.pc = "body" /\ dc'.pc # "body" /\ ~dc.force_check
           /\ ValidCacheEntry /\ dc'.read_io = "ok")
          => /\ dc'.pc = "done"
             /\ dc'.value = ReleaseFromDict(cache_file.release)
             /\ dc'.requests = dc.requests
             /\ (dc.outer_attempt = 0 => dc'.requests = 0)]_vars

\* a call that was not forced returned the valid cached release
C12_Witness ==
  /\ Done
  /\ ~dc.force_check
  /\ dc.requests = 0
  /\ ValidCacheEntry
  /\ dc.value = ReleaseFromDict(cache_file.release)

\* C13: a live check_for_updates returns the fetched release if and only if
\* its version is strictly greater than the current version; a fetched release
\* that is equal or older gives nothing and leaves the cache file unchanged.
C13_ReturnsOnlyNewer ==
  [][(dc.pc = "parse" /\ dc'.pc = "done")
       => LET release == _parse_release_data(dc.data)
          IN IF VersionGt(release_version(release), current_version)
             THEN dc'.value = release
             ELSE dc'.value = None /\ cache_file' = cache_file]_vars

\* a release of the current version was fetched and nothing was returned
C13_Witness ==
  /\ Done
  /\ dc.requests > 0
  /\ dc.answer.kind = "ok"
  /\ dc.data # None
  /\ RequiredKeys \subseteq DOMAIN dc.data
  /\ release_version(_parse_release_data(dc.data)) # ValueError
  /\ VersionEq(release_version(_parse_release_data(dc.data)), current_version)
  /\ dc.value = None

\* C14: in both modes of the updater an HTTP 404 answer of the release host
\* makes check_for_updates return nothing, with no error.
C14_NotFoundIsNoUpdate ==
  (Done /\ ~dc.from_cache /\ dc.answer.kind = "http_404") => dc.value = None

\* the most requests one call can issue
MaxRequests == (OuterMaxRetries + 1) * (InnerMaxRetries + 1)

\* C15: under persistent failure check_for_updates terminates: it issues at
\* most (3 + 1) * (2 + 1) = 12 remote requests and then raises the error to
\* its caller.
C15_BoundedRetries ==
  /\ [](dc.requests <= MaxRequests)
  /\ [](Done /\ dc.value = Raised => dc.outer_attempt = OuterMaxRetries)
  /\ (dc.pc \notin {"idle", "done"}) ~> Done

\* every request of a call failed: twelve requests, then the error
C15_Witness ==
  /\ Done
  /\ dc.value = Raised
  /\ dc.requests = MaxRequests

\* the delays in `slept` are all the same
AllEqual(slept) == \A i, j \in DOMAIN slept : slept[i] = slept[j]

\* the delays in `slept` start at `delay` and double with every retry
RECURSIVE Doubling(_, _)
Doubling(slept, delay) ==
  \/ slept = <<>>
  \/ Head(slept) = delay /\ Doubling(Tail(slept), delay * 2)

\* C16 as stated: the delay between consecutive retry attempts of a discovery
\* call is the same fixed value for every retry of that call.
C16_Original == AllEqual(dc.outer_slept) /\ AllEqual(dc.inner_slept)

\* C16: the delay between consecutive retry attempts of a discovery call
\* starts at the decorator's delay (1 s around check_for_updates, 2 s around
\* each fetch) and doubles after every retry of that call.
C16_DoublingDelay ==
  Doubling(dc.outer_slept, OuterDelay) /\ Doubling(dc.inner_slept, InnerDelay)

\* a call slept 1, 2 and 4 seconds between its four attempts and 2 and 4
\* seconds between the three requests of its last attempt
C16_Witness ==
  /\ dc.outer_slept = <<1, 2, 4>>
  /\ dc.inner_slept = <<2, 4>>

\* C34: with prereleases included, check_for_updates derives its result only
\* from element 0 of the list of releases the host returned, and an empty
\* list gives no release.
C34_OnlyFirstOfList ==
  (Done /\ dc.check_prereleases /\ ~dc.from_cache /\ dc.answer.kind = "ok")
    => IF dc.answer.data = <<>>
       THEN dc.value = None
       ELSE LET first == dc.answer.data[1]
            IN IF Newer(ParsedVersion[first], current_version)
               THEN dc.value = ParsedRelease[first]
               ELSE dc.value = None

\* the list began with release 1.0.0, which is not newer than the running
\* 1.0.0, and went on with 1.2.0, which is: no release was returned
C34_Witness ==
  /\ Done
  /\ dc.check_prereleases
  /\ ~dc.from_cache
  /\ dc.answer = [kind |-> "ok", data |-> <<DataEqual, DataNewer>>]
  /\ current_version = CURRENT_VERSION
  /\ dc.value = None

\* C38: an updater constructed with check_prereleases false never returns a
\* release whose prerelease flag is true, whether the release comes from a
\* request to the host or from the cache file an earlier run wrote.
C38_StableOnly ==
  (Done /\ ~dc.check_prereleases /\ dc.value # None /\ dc.value # Raised)
    => ~dc.value.prerelease

\* ------------------------------------------------------------------------
\* Properties of the background check and of the download
\* ------------------------------------------------------------------------

\* C17: when the check_updates setting is false as
\* check_for_updates_background runs, the call returns before
\* check_for_updates, the only step that sends a request, and changes neither
\* available_update nor last_check_time.
C17_DisabledChecksDoNothing ==
  [][\A p \in Procs :
       (pc[p] = "c_begin" /\ ~check_updates /\ pc'[p] # "c_begin")
         => /\ pc'[p] = "idle"
            /\ loc'[p].answer.kind = "none"
            /\ available_update' = available_update
            /\ last_check_time' = last_check_time
            /\ cache_file' = cache_file]_vars

\* a background check runs with the setting off while a release found earlier
\* is on offer
C17_Witness ==
  /\ ~check_updates
  /\ available_update # None
  /\ last_check_time # None
  /\ \E p \in Procs : pc[p] = "c_begin"

\* C18: after download_update has failed, no partly written file is left at
\* the temporary download path.
C18_NoPartialFile ==
  \A t \in Threads :
    (pc[t] = "u_except" /\ loc[t].message = "Download failed")
      => loc[t].download = "none"

\* C19: one update attempt makes at most one download request; a failed
\* download is not tried again: the attempt goes to its failure notification
\* and ends.
C19_DownloadNotRetried ==
  /\ [](\A t \in Threads : loc[t].downloads <= 1)
  /\ [][\A t \in Threads :
          (pc[t] = "u_download" /\ pc'[t] # "u_download" /\ ~loc'[t].have_path)
            => pc'[t] = "u_except" /\ loc'[t].message = "Download failed"]_vars
  /\ [][\A t \in Threads :
          (pc[t] = "u_except" /\ pc'[t] # "u_except")
            => /\ pc'[t] = "u_finally"
               /\ lastNote' = Note("Update Failed", loc[t].message)]_vars

\* an attempt whose one download failed has shown the failure notification
C19_Witness ==
  \E t \in Threads :
    /\ pc[t] = "u_finally"
    /\ loc[t].downloads = 1
    /\ loc[t].message = "Download failed"
    /\ lastNote = Note("Update Failed", "Download failed")

\* ------------------------------------------------------------------------
\* GitHubUpdater.download_update: the progress reports of one transfer
\* ------------------------------------------------------------------------

\* the most blocks one transfer reads, the largest block and the largest
\* declared size
MaxBlocks == 3
MaxBlockSize == 2
MaxTotal == 3

\* a / b and 1.0 as fractions with their denominator
Quotient(a, b) == [num |-> a, den |-> b]
One == [num |-> 1, den |-> 1]

\* x < y for fractions with positive denominators
FractionLt(x, y) == x.num * y.den < y.num * x.den

\* Python's min(x, y): y unless x is smaller
PyMin(x, y) == IF FractionLt(x, y) THEN x ELSE y

ReportsUnlessSizeZero(progress_callback, total_size) ==
  progress_callback /\ total_size # 0

\* download_progress: if progress_callback and total_size > 0
Reports(progress_callback, total_size) == progress_callback /\ total_size > 0

\* download_progress(block_num, block_size, total_size), the reporthook
download_progress(d, block_num, block_size, total_size) ==
  IF Reports(d.has_callback, total_size)
  THEN LET downloaded == block_num * block_size
           progress == PyMin(Quotient(downloaded, total_size), One)
       IN [d EXCEPT !.invocations = @ + 1, !.progress = progress]
  ELSE d

\* download_update is called, with or without a callback; urlretrieve opens
\* the URL: the declared size is -1 when the server gives no Content-Length
p_start ==
  /\ dl.pc \in {"idle", "finished"}
  /\ \E has_callback \in BOOLEAN, block_size \in 1 .. MaxBlockSize,
        total_size \in -1 .. MaxTotal :
       dl' = [InitDl EXCEPT !.pc = "transfer", !.has_callback = has_callback,
                            !.block_size = block_size, !.total_size = total_size]
  /\ UNCHANGED <<cacheVars, diskVars, callVars, mgrVars, dc, vm, wr>>

\* urlretrieve calls the reporthook once when the transfer begins and once
\* after every block it has read
p_block ==
  /\ dl.pc = "transfer"
  /\ dl.block_num <= MaxBlocks
  /\ dl' = [download_progress(dl, dl.block_num, dl.block_size, dl.total_size)
              EXCEPT !.block_num = @ + 1]
  /\ UNCHANGED <<cacheVars, diskVars, callVars, mgrVars, dc, vm, wr>>

\* the transfer ends: the data is complete or urlretrieve raises
p_end ==
  /\ dl.pc = "transfer"
  /\ dl.block_num >= 1
  /\ dl' = [dl EXCEPT !.pc = "finished"]
  /\ UNCHANGED <<cacheVars, diskVars, callVars, mgrVars, dc, vm, wr>>

ProgressInit ==
  /\ now = 0
  /\ cache_file = NoFile
  /\ current_version \in CurrentVersions
  /\ cached_result = None
  /\ lastOp = [op |-> "init"]
  /\ canonical = "A"
  /\ temp_old = "none"
  /\ pc = [p \in Procs |-> "idle"]
  /\ loc = [p \in Procs |-> InitLoc]
  /\ gh = [p \in Procs |-> InitGh]
  /\ ManagerConstructed
  /\ UpdaterIdle

ProgressNext == p_start \/ p_block \/ p_end

ProgressSpec == ProgressInit /\ [][ProgressNext]_vars

\* C20: every value given to the progress callback lies in [0, 1], and the
\* callback is never invoked when the total size is not positive.
C20_ProgressInUnitInterval ==
  /\ dl.progress # None
       => /\ dl.progress.den > 0
          /\ 0 <= dl.progress.num
          /\ dl.progress.num <= dl.progress.den
  /\ dl.total_size <= 0 => dl.invocations = 0 /\ dl.progress = None

\* a transfer of declared size 3 in blocks of 2 has reported 0, 2/3 and, for
\* the block that passes the end, 1
C20_Witness ==
  /\ dl.total_size = 3
  /\ dl.block_size = 2
  /\ dl.invocations = 3
  /\ dl.progress = One

\* ------------------------------------------------------------------------
\* Version: calls on its methods with arguments from bounded sets
\* ------------------------------------------------------------------------

\* the largest major, minor and patch number of an argument
MaxPart == 1

Parts == 0 .. MaxPart

\* prerelease values: None, the empty string a caller can construct, tags
PrereleaseValues ==
  {NoneStr, Some(<<>>), Some(<<"a">>), Some(<<"a", "1">>), Some(<<"b">>)}

BuildValues == {NoneStr, Some(<<"7">>)}

\* Version(major, minor, patch, prerelease, build) objects
VersionValues ==
  {Version(major, minor, patch, prerelease, build) :
     major \in Parts, minor \in Parts, patch \in Parts,
     prerelease \in PrereleaseValues, build \in BuildValues}

\* the same without build metadata
PlainVersionValues == {v \in VersionValues : v.build = NoneStr}

\* a and b compared with every operator, both ways round for < and ==
v_compare ==
  /\ vm = InitVm
  /\ \E a \in VersionValues, b \in VersionValues :
    /\ vm' = [op |-> "compare", a |-> a, b |-> b,
              lt |-> VersionLt(a, b), eq |-> VersionEq(a, b),
              le |-> VersionLe(a, b), gt |-> VersionGt(a, b),
              ge |-> VersionGe(a, b),
              lt_ba |-> VersionLt(b, a), eq_ba |-> VersionEq(b, a)]
    /\ UNCHANGED <<cacheVars, diskVars, callVars, mgrVars, dc, dl, wr>>

\* a < b, b < c and a < c
v_chain ==
  /\ vm = InitVm
  /\ \E a \in PlainVersionValues, b \in PlainVersionValues,
        c \in PlainVersionValues :
    /\ vm' = [op |-> "chain", a |-> a, b |-> b, c |-> c,
              ab |-> VersionLt(a, b), bc |-> VersionLt(b, c),
              ac |-> VersionLt(a, c)]
    /\ UNCHANGED <<cacheVars, diskVars, callVars, mgrVars, dc, dl, wr>>

\* self.get_update_type(other)
v_update_type ==
  /\ vm = InitVm
  /\ \E self \in VersionValues, other \in VersionValues :
    /\ vm' = [op |-> "update_type", self |-> self, other |-> other,
              result |-> get_update_type(self, other)]
    /\ UNCHANGED <<cacheVars, diskVars, callVars, mgrVars, dc, dl, wr>>

\* the pieces version strings are put together from, well-formed and not
LeadTexts == {<<>>, <<" ">>}
NumberTexts == {<<>>, <<"1">>, <<"0", "1">>, <<"a">>}
DotTexts == {<<".">>, <<>>}
PrereleaseTexts ==
  {<<>>, <<"-">>, <<"-", "-">>, <<"-", "a">>, <<"-", "a", ".", "1">>,
   <<"-", "a", " ", "b">>}
BuildTexts == {<<>>, <<"+">>, <<"+", "7">>, <<"+", "a", "+", "b">>}

VersionTexts ==
  {lead \o major \o dot1 \o minor \o dot2 \o patch \o prerelease \o build
     \o trail :
     lead \in LeadTexts, major \in NumberTexts, dot1 \in DotTexts,
     minor \in NumberTexts, dot2 \in DotTexts, patch \in NumberTexts,
     prerelease \in PrereleaseTexts, build \in BuildTexts, trail \in LeadTexts}

\* Version.from_string(text) and, when it returned a version, its to_string,
\* format_version_for_display and from_string of that to_string
v_parse ==
  /\ vm = InitVm
  /\ \E text \in VersionTexts :
    \E parsed \in {from_string(text)} :
      /\ vm' = IF parsed = ValueError
               THEN [op |-> "parse", text |-> text, parsed |-> parsed]
               ELSE [op |-> "parse", text |-> text, parsed |-> parsed,
                     shown |-> to_string(parsed),
                     display |-> format_version_for_display(parsed),
                     reparsed |-> from_string(to_string(parsed))]
      /\ UNCHANGED <<cacheVars, diskVars, callVars, mgrVars, dc, dl, wr>>

\* the results have been looked at; the next call can be made
v_return ==
  /\ vm # InitVm
  /\ vm' = InitVm
  /\ UNCHANGED <<cacheVars, diskVars, callVars, mgrVars, dc, dl, wr>>

VersionInit ==
  /\ now = 0
  /\ cache_file = NoFile
  /\ current_version = CURRENT_VERSION
  /\ cached_result = None
  /\ lastOp = [op |-> "init"]
  /\ canonical = "A"
  /\ temp_old = "none"
  /\ pc = [p \in Procs |-> "idle"]
  /\ loc = [p \in Procs |-> InitLoc]
  /\ gh = [p \in Procs |-> InitGh]
  /\ ManagerConstructed
  /\ UpdaterIdle

VersionNext == v_compare \/ v_chain \/ v_update_type \/ v_parse \/ v_return

VersionSpec == VersionInit /\ [][VersionNext]_vars

\* ------------------------------------------------------------------------
\* Properties of Version
\* ------------------------------------------------------------------------

\* a version whose prerelease is absent or a non-empty tag
ValidVersion(v) == ~v.prerelease.some \/ v.prerelease.val # <<>>

\* how many of the statements in `bs` are true
HowManyTrue(bs) == Cardinality({i \in DOMAIN bs : bs[i]})

\* C23: over valid versions the ordering is a strict total order: exactly one
\* of a < b, a == b, b < a holds, < is transitive, and <=, > and >= say what
\* < and == say.
C23_StrictTotalOrder ==
  /\ (vm.op = "compare" /\ ValidVersion(vm.a) /\ ValidVersion(vm.b))
       => /\ HowManyTrue(<<vm.lt, vm.eq, vm.lt_ba>>) = 1
          /\ vm.eq = vm.eq_ba
          /\ vm.le = (vm.lt \/ vm.eq)
          /\ vm.gt = vm.lt_ba
          /\ vm.ge = (vm.lt_ba \/ vm.eq)
  /\ (vm.op = "chain" /\ ValidVersion(vm.a) /\ ValidVersion(vm.b)
        /\ ValidVersion(vm.c) /\ vm.ab /\ vm.bc)
       => vm.ac

\* 1.0.0-a < 1.0.0-a1 and 1.0.0-a1 < 1.0.0 were found, and 1.0.0-a < 1.0.0
C23_Witness ==
  /\ vm.op = "chain"
  /\ vm.a.prerelease = Some(<<"a">>)
  /\ vm.b.prerelease = Some(<<"a", "1">>)
  /\ vm.c.prerelease = NoneStr
  /\ TupleEq(vm.a, vm.b) /\ TupleEq(vm.b, vm.c)
  /\ vm.ab /\ vm.bc /\ vm.ac

\* C24: for equal (major, minor, patch) a version with a prerelease tag is
\* strictly less than the version without one, and never the reverse.
C24_PrereleaseBeforeRelease ==
  (vm.op = "compare" /\ TupleEq(vm.a, vm.b)
     /\ Truthy(vm.a.prerelease) /\ ~vm.b.prerelease.some)
    => vm.lt /\ ~vm.lt_ba

\* 1.0.0-b was compared with 1.0.0
C24_Witness ==
  /\ vm.op = "compare"
  /\ vm.a = Version(1, 0, 0, Some(<<"b">>), NoneStr)
  /\ vm.b = Version(1, 0, 0, NoneStr, NoneStr)
  /\ vm.lt

\* v with its build metadata replaced
WithBuild(v, build) == [v EXCEPT !.build = build]

\* C25: two versions that differ only in build metadata compare equal and
\* neither is less than the other; build metadata changes the result of no
\* comparison operator.
C25_BuildIsIgnored ==
  vm.op = "compare"
    => \A x \in BuildValues, y \in BuildValues :
         LET a == WithBuild(vm.a, x)
             b == WithBuild(vm.b, y)
         IN /\ VersionEq(vm.a, a) /\ ~VersionLt(vm.a, a) /\ ~VersionLt(a, vm.a)
            /\ VersionLt(a, b) = vm.lt
            /\ VersionEq(a, b) = vm.eq
            /\ VersionLe(a, b) = vm.le
            /\ VersionGt(a, b) = vm.gt
            /\ VersionGe(a, b) = vm.ge

\* 1.0.0+7 was compared with 1.0.0 and found equal, not less, not greater
C25_Witness ==
  /\ vm.op = "compare"
  /\ vm.a = Version(1, 0, 0, NoneStr, Some(<<"7">>))
  /\ vm.b = Version(1, 0, 0, NoneStr, NoneStr)
  /\ vm.eq /\ ~vm.lt /\ ~vm.gt

\* the most significant component in which `to` differs from `from`
MostSignificantDifference(from, to) ==
  IF to.major # from.major THEN "major"
  ELSE IF to.minor # from.minor THEN "minor"
  ELSE IF to.patch # from.patch THEN "patch"
  ELSE "prerelease"

\* C26: from.get_update_type(to) is None when to <= from, and otherwise the
\* most significant component in which to differs from from: major, else
\* minor, else patch, else prerelease.
C26_UpdateType ==
  vm.op = "update_type"
    => vm.result = IF VersionLe(vm.other, vm.self) THEN "None"
                   ELSE MostSignificantDifference(vm.self, vm.other)

\* from 1.0.1 to 1.1.0 is a minor update, and from 1.0.0-a to 1.0.0 a
\* prerelease one
C26_Witness ==
  /\ vm.op = "update_type"
  /\ \/ /\ vm.self = Version(1, 0, 1, NoneStr, NoneStr)
        /\ vm.other = Version(1, 1, 0, NoneStr, NoneStr)
        /\ vm.result = "minor"
     \/ /\ vm.self = Version(1, 0, 0, Some(<<"a">>), NoneStr)
        /\ vm.other = Version(1, 0, 0, NoneStr, NoneStr)
        /\ vm.result = "prerelease"

\* the characters A-Z, a-z, 0-9, '.' and '-'
TokenChars ==
  {"0", "1", "2", "3", "4", "5", "6", "7", "8", "9", ".", "-"}
    \cup Range(UpperSeq) \cup Range(LowerSeq)

\* a non-empty string of characters of cs
NonEmptyOf(t, cs) == t # <<>> /\ Range(t) \subseteq cs

\* "" or +BUILD
BuildForm(r) == r = <<>> \/ (Head(r) = "+" /\ NonEmptyOf(Tail(r), TokenChars))

\* "", -PRERELEASE, +BUILD or -PRERELEASE+BUILD
SuffixForm(r) ==
  \/ BuildForm(r)
  \/ /\ r # <<>> /\ Head(r) = "-"
     /\ \E m \in 2 .. Len(r) :
          NonEmptyOf(SubSeq(r, 2, m), TokenChars) /\ BuildForm(Drop(r, m))

\* MAJOR.MINOR.PATCH[-PRERELEASE][+BUILD] with a numeric triplet
IsVersionForm(s) ==
  \E i \in 1 .. Len(s), j \in 1 .. Len(s), k \in 1 .. Len(s) :
    /\ i < j /\ j < k
    /\ s[i] = "." /\ s[j] = "."
    /\ NonEmptyOf(SubSeq(s, 1, i - 1), DigitChars)
    /\ NonEmptyOf(SubSeq(s, i + 1, j - 1), DigitChars)
    /\ NonEmptyOf(SubSeq(s, j + 1, k), DigitChars)
    /\ SuffixForm(Drop(s, k))

\* the call returned a version
Parsed == vm.op = "parse" /\ vm.parsed # ValueError

\* C27 as stated: from_string accepts exactly the strings of the form
\* MAJOR.MINOR.PATCH[-PRERELEASE][+BUILD] and raises for every other string;
\* a prerelease it produces is never empty.
C27_Original ==
  vm.op = "parse"
    => /\ Parsed <=> IsVersionForm(vm.text)
       /\ Parsed => vm.parsed.prerelease # Some(<<>>)

\* C27: from_string accepts exactly the strings that are of the form
\* MAJOR.MINOR.PATCH[-PRERELEASE][+BUILD] once the white space at their two
\* ends is taken off, and raises for every other string; a prerelease it
\* produces is never empty.
C27_AcceptsStrippedForm ==
  vm.op = "parse"
    => /\ Parsed <=> IsVersionForm(Strip(vm.text))
       /\ Parsed => vm.parsed.prerelease # Some(<<>>)

\* " 01.1.1-a.1+7 " was accepted
C27_Witness ==
  /\ Parsed
  /\ vm.text = <<" ", "0", "1", ".", "1", ".", "1", "-", "a", ".", "1",
                 "+", "7", " ">>
  /\ vm.parsed = Version(1, 1, 1, Some(<<"a", ".", "1">>), Some(<<"7">>))

\* C28: for every valid version string v, from_string(to_string(
\* from_string(v))) equals from_string(v) in major, minor, patch, prerelease
\* and build.
C28_RoundTrip == Parsed => vm.reparsed = vm.parsed

\* a string with a leading zero, a prerelease and build metadata was parsed,
\* formatted to another string and parsed again
C28_Witness ==
  /\ Parsed
  /\ vm.parsed.prerelease.some
  /\ vm.parsed.build.some
  /\ vm.shown # vm.text
  /\ vm.reparsed = vm.parsed

\* MAJOR.MINOR.PATCH[-PRERELEASE]
Canonical(v) ==
  IntToStr(v.major) \o <<".">> \o IntToStr(v.minor) \o <<".">>
    \o IntToStr(v.patch)
    \o (IF v.prerelease.some THEN <<"-">> \o v.prerelease.val ELSE <<>>)

\* C29: the string produced for the display of a version is the canonical
\* MAJOR.MINOR.PATCH[-PRERELEASE] and never has the build metadata in it.
C29_DisplayIsCanonical ==
  Parsed => vm.shown = Canonical(vm.parsed) /\ vm.display = Canonical(vm.parsed)

\* ------------------------------------------------------------------------
\* Properties of update_process
\* ------------------------------------------------------------------------

\* the positions of a thread inside install_update
InInstall(t) ==
  pc[t] \in {"i_start", "i_backup", "i_extract", "i_cleanup", "i_except",
             "i_done", "r_aside", "r_movein", "r_rm_old", "r_clean",
             "r_rollback"}

\* C21: in one update attempt install_update is called only after
\* download_update has returned a path; when the download fails,
\* install_update is never called in that attempt and the attempt leaves the
\* installed bundle as it was.
C21_InstallOnlyAfterDownload ==
  /\ [](\A t \in Threads :
          (InInstall(t) \/ gh[t].touched)
            => loc[t].have_path /\ loc[t].downloads = 1)
  /\ [](\A t \in Threads :
          loc[t].message = "Download failed"
            => /\ ~loc[t].have_path
               /\ ~InInstall(t)
               /\ ~gh[t].touched)
  /\ [][\A t \in Threads :
          (pc'[t] # pc[t]
             /\ (loc[t].message = "Download failed"
                   \/ loc'[t].message = "Download failed"))
            => canonical' = canonical /\ ~InInstall(t)']_vars

\* an attempt whose download left a partial file is in the except branch,
\* install_update was not entered and the installed bundle is the original
C21_Witness ==
  \E t \in Threads :
    /\ pc[t] = "u_except"
    /\ loc[t].message = "Download failed"
    /\ loc[t].download = "partial"
    /\ ~gh[t].touched
    /\ canonical = "A"

\* C22: an exception raised by the notification callback at any
\* notification point changes neither what the check or the update does next
\* and gives as its result nor the final values of update_in_progress and
\* available_update: each step whose notification raised is followed by
\* what follows it when the notification succeeds.
C22_CallbackErrorsAreSwallowed ==
  /\ [][\A p \in Procs :
          (pc[p] = "c_result" /\ pc'[p] # "c_result" /\ loc'[p].callback_raised)
            => /\ pc'[p] = "c_finally"
               /\ loc[p].fetched # Raised
                    => /\ available_update' = loc[p].fetched
                       /\ lastNote'.title # "Update Check Failed"
               /\ loc[p].fetched = Raised
                    => available_update' = available_update]_vars
  /\ [][\A t \in Threads :
          (pc[t] = "u_begin" /\ pc'[t] # "u_begin" /\ loc'[t].callback_raised)
            => pc'[t] = "u_download" /\ loc'[t].message = ""]_vars
  /\ [][\A t \in Threads :
          (pc[t] = "u_download" /\ pc'[t] # "u_download"
             /\ loc'[t].callback_raised)
            => IF loc'[t].have_path
               THEN pc'[t] = "i_start" /\ loc'[t].message = ""
               ELSE loc'[t].message = "Download failed"]_vars
  /\ [][\A t \in Threads :
          (pc[t] = "i_done" /\ loc[t].success = "True" /\ pc'[t] # "i_done")
            => /\ pc'[t] = "u_finally"
               /\ available_update' = None
               /\ loc'[t].message = ""]_vars
  /\ [][\A p \in Procs :
          (pc[p] \in {"c_finally", "u_finally"} /\ pc'[p] = "idle"
             /\ loc[p].callback_raised)
            => /\ update_in_progress' = FALSE
               /\ available_update' = available_update]_vars

\* the callback raised at the "Update Complete" notification of an update
\* that was installed, and the update goes on to its end with no available
\* update left and no failure message
C22_Witness ==
  \E t \in Threads :
    /\ pc[t] = "u_finally"
    /\ loc[t].callback_raised
    /\ loc[t].success = "True"
    /\ loc[t].message = ""
    /\ canonical = "B"
    /\ available_update = None
    /\ lastNote = Note("Update Complete", "Restart when convenient")

\* C36: available_update changes only when a check completes (it becomes
\* the release found, or None when there is no update), when an install has
\* succeeded (None) and when the user confirms a skip (None); a check that
\* failed and a download or an install that failed leave it as it was.
C36_AvailableUpdateFrame ==
  /\ [][available_update' # available_update
          => \/ \E p \in Procs :
                  /\ pc[p] = "c_result" /\ pc'[p] = "c_finally"
                  /\ loc[p].fetched # Raised
                  /\ available_update' = loc[p].fetched
             \/ \E t \in Threads :
                  /\ pc[t] = "i_done" /\ pc'[t] = "u_finally"
                  /\ loc[t].success = "True"
                  /\ available_update' = None
             \/ /\ pc' = pc
                /\ lastNote' = Note("Version Skipped", "This version will be skipped")
                /\ available_update' = None]_vars
  /\ [][\A p \in Procs :
          (pc'[p] # pc[p]
             /\ \/ pc[p] = "c_result" /\ loc[p].fetched = Raised
                \/ pc[p] = "u_download" /\ ~loc'[p].have_path
                \/ pc[p] = "i_done" /\ loc[p].success # "True"
                \/ pc[p] = "u_except"
                \/ pc[p] = "u_finally" /\ loc[p].message # "")
            => available_update' = available_update]_vars

\* a check failed while the release an earlier check had found was the
\* available update, and it still is
C36_Witness ==
  \E p \in Procs :
    /\ pc[p] = "c_finally"
    /\ loc[p].fetched = Raised
    /\ available_update = _parse_release_data(DataNewer)

\* C37: a check_for_updates_background call that returns early because the
\* checks are disabled leaves update_in_progress as it was, so it cannot
\* clear the flag of an update that is in flight.
C37_DisabledCheckKeepsFlag ==
  [][\A p \in Procs :
       (pc[p] = "c_begin" /\ ~check_updates /\ pc'[p] = "idle")
         => update_in_progress' = update_in_progress]_vars

\* ------------------------------------------------------------------------
\* Properties of skip_version
\* ------------------------------------------------------------------------

\* C30: after skip_version has been called for a version, no later update
\* check makes that same version the available update or notifies the user
\* about it again.
C30_SkippedStaysSkipped ==
  [][\A p \in Procs :
       (pc[p] = "c_result" /\ pc'[p] # "c_result"
          /\ loc[p].fetched # Raised /\ loc[p].fetched # None
          /\ loc[p].fetched.tag_name \in loc[p].skipped_before)
         => available_update' # loc[p].fetched /\ lastNote' = lastNote]_vars

\* ------------------------------------------------------------------------
\* error_handler.py: retry_on_error and error_boundary around a function
\* that returns or raises as it likes
\* ------------------------------------------------------------------------

\* the largest max_retries given to retry_on_error
MaxRetriesArg == 4

\* the delays given to retry_on_error
DelayArgs == {1, 2}

\* what one invocation of a function wrapped by retry_on_error does
FuncOutcomes ==
  {[raised |-> FALSE, value |-> v] : v \in {"a", "b"}}
    \cup {[raised |-> TRUE, value |-> e] : e \in {"ValueError", "OSError"}}

\* the functions of GitHubUpdater under @error_boundary
BoundedFunctions == {"download_update", "install_update"}

\* what the body of download_update or install_update does: it returns the
\* download path, or True, or raises from its except branch
BodyOutcomes(fn) ==
  {[raised |-> FALSE,
    value |-> IF fn = "download_update" THEN "download_path" ELSE "True"]}
    \cup {[raised |-> TRUE, value |-> e] :
            e \in {"URLError", "BadZipFile", "ConfigurationError"}}

\* default_return of the decorator of each
DefaultReturn(fn) == IF fn = "download_update" THEN "None" ELSE "False"

\* ErrorHandler.handle_error: whether it raises; it calls the notification
\* callback only under notify_user and self.notification_callback
handle_error(notify_user, has_callback, callback_raises) ==
  notify_user /\ has_callback /\ callback_raises

ExecuteUnprotected(outcome, default_return, notify_user, has_callback, callback_raises) ==
  outcome

\* safe_execute: try: return func(...); except Exception: handle_error(...);
\* return default_return
safe_execute(outcome, default_return, notify_user, has_callback, callback_raises) ==
  IF ~outcome.raised THEN outcome
  ELSE IF handle_error(notify_user, has_callback, callback_raises)
  THEN [raised |-> TRUE, value |-> "callback error"]
  ELSE [raised |-> FALSE, value |-> default_return]

\* the wrapper of error_boundary: safe_execute with no error_handler, so
\* with ErrorHandler(), which has no notification callback
error_boundary(outcome, default_return, notify_user, callback_raises) ==
  safe_execute(outcome, default_return, notify_user, FALSE, callback_raises)

\* a function wrapped by retry_on_error(max_retries, delay) is called
w_retry_call ==
  /\ wr = InitWr
  /\ \E max_retries \in 0 .. MaxRetriesArg, delay \in DelayArgs :
       wr' = [pc |-> "retry", max_retries |-> max_retries, attempt |-> 0,
              current_delay |-> delay, calls |-> 0, slept |-> <<>>,
              last |-> None, result |-> None]
  /\ UNCHANGED <<cacheVars, diskVars, callVars, mgrVars, dc, dl, vm>>

\* one pass of the for loop of the wrapper: the function is invoked, and
\* its result is returned, or its exception is raised again on the last
\* attempt, or the wrapper sleeps and goes round
w_retry_attempt ==
  /\ wr.pc = "retry"
  /\ \E outcome \in FuncOutcomes :
       LET w == [wr EXCEPT !.calls = @ + 1, !.last = outcome]
       IN IF ~outcome.raised
          THEN wr' = [w EXCEPT !.pc = "returned", !.result = outcome]
          ELSE IF GivesUp(wr.attempt, wr.max_retries)
          THEN wr' = [w EXCEPT !.pc = "raised", !.result = outcome]
          ELSE wr' = [w EXCEPT !.attempt = @ + 1,
                               !.slept = Append(@, wr.current_delay),
                               !.current_delay = NextDelay(@)]
  /\ UNCHANGED <<cacheVars, diskVars, callVars, mgrVars, dc, dl, vm>>

\* download_update or install_update is called through its error boundary
w_boundary_call ==
  /\ wr = InitWr
  /\ \E fn \in BoundedFunctions, callback_raises \in BOOLEAN :
       \E outcome \in BodyOutcomes(fn) :
         wr' = [pc |-> "bounded", fn |-> fn, outcome |-> outcome,
                callback_raises |-> callback_raises,
                result |-> error_boundary(outcome, DefaultReturn(fn), TRUE,
                                          callback_raises)]
  /\ UNCHANGED <<cacheVars, diskVars, callVars, mgrVars, dc, dl, vm>>

\* the caller has the result
w_return ==
  /\ wr.pc \in {"returned", "raised", "bounded"}
  /\ wr' = InitWr
  /\ UNCHANGED <<cacheVars, diskVars, callVars, mgrVars, dc, dl, vm>>

WrapperInit ==
  /\ now = 0
  /\ cache_file = NoFile
  /\ current_version = CURRENT_VERSION
  /\ cached_result = None
  /\ lastOp = [op |-> "init"]
  /\ canonical = "A"
  /\ temp_old = "none"
  /\ pc = [p \in Procs |-> "idle"]
  /\ loc = [p \in Procs |-> InitLoc]
  /\ gh = [p \in Procs |-> InitGh]
  /\ ManagerConstructed
  /\ UpdaterIdle

WrapperNext == w_retry_call \/ w_retry_attempt \/ w_boundary_call \/ w_return

WrapperSpec == WrapperInit /\ [][WrapperNext]_vars

\* ------------------------------------------------------------------------
\* Properties of retry_on_error and error_boundary
\* ------------------------------------------------------------------------

\* C31: a function wrapped by retry_on_error(max_retries=n) is invoked at
\* most n + 1 times: the result of the first invocation that succeeds is
\* returned with no further invocation, and after n + 1 failures in a row
\* the last exception is raised to the caller.
C31_RetryBound ==
  /\ [](wr.pc \in {"retry", "returned", "raised"}
          => wr.calls <= wr.max_retries + 1)
  /\ [](wr.pc = "returned"
          => /\ ~wr.result.raised
             /\ wr.result = wr.last
             /\ wr.calls = Len(wr.slept) + 1)
  /\ [](wr.pc = "raised"
          => /\ wr.result.raised
             /\ wr.result = wr.last
             /\ wr.calls = wr.max_retries + 1
             /\ Len(wr.slept) = wr.max_retries)
  /\ [][wr.pc \in {"returned", "raised"} => wr' = InitWr]_vars
  /\ [][(wr.pc = "retry" /\ wr'.pc = "retry" /\ wr' # wr)
          => wr'.last.raised /\ wr'.calls = wr.calls + 1]_vars

\* under the largest max_retries every invocation failed but the last one
\* allowed, which returned
C31_Witness ==
  /\ wr.pc = "returned"
  /\ wr.max_retries = MaxRetriesArg
  /\ wr.calls = MaxRetriesArg + 1
  /\ wr.result = [raised |-> FALSE, value |-> "b"]

\* C32: download_update and install_update never raise to their caller: an
\* exception inside them becomes the default return value of the error
\* boundary, None for download_update and False for install_update, and a
\* call that succeeds returns its own result.
C32_BoundaryNeverRaises ==
  wr.pc = "bounded"
    => /\ ~wr.result.raised
       /\ wr.outcome.raised => wr.result.value = DefaultReturn(wr.fn)
       /\ ~wr.outcome.raised => wr.result = wr.outcome

\* install_update raised and its caller got False
C32_Witness ==
  /\ wr.pc = "bounded"
  /\ wr.fn = "install_update"
  /\ wr.outcome = [raised |-> TRUE, value |-> "BadZipFile"]
  /\ wr.result = [raised |-> FALSE, value |-> "False"]

\* ------------------------------------------------------------------------
\* GitHubUpdater._parse_release_data on release objects with lists of assets
\* ------------------------------------------------------------------------

\* the longest list of assets
MaxAssets == 3

\* assets as the release host lists them: name, browser_download_url, size
HostAssets ==
  {[name |-> <<"A", "p", "p", ".", "z", "i", "p">>,
    browser_download_url |-> "https://app.zip", size |-> 5],
   [name |-> <<"A", ".", "Z", "I", "P">>,
    browser_download_url |-> "https://upper.zip", size |-> 4],
   [name |-> <<"T", "e", "x", "t", "C", "o", "n", "v", "e", "r", "t", "e",
               "r", ".", "d", "m", "g">>,
    browser_download_url |-> "https://product.dmg", size |-> 3],
   [name |-> <<"z", "i", "p", ".", "t", "x", "t">>,
    browser_download_url |-> "https://zip.txt", size |-> 2],
   [name |-> <<"n", "o", "t", "e", "s">>,
    browser_download_url |-> "https://notes", size |-> 1]}

\* the lists of at most MaxAssets of them
AssetLists ==
  UNION {[1 .. n -> HostAssets] : n \in 0 .. MaxAssets}

\* release = self._parse_release_data(latest_data), for a release object
\* with any of the lists of assets
parse_call ==
  /\ dc.pc = "idle"
  /\ \E assets \in AssetLists :
       \E data \in {[DataNewer EXCEPT !.assets = assets]} :
         dc' = [dc EXCEPT !.pc = "parsed", !.data = data,
                          !.value = _parse_release_data(data)]
  /\ UNCHANGED <<cacheVars, diskVars, callVars, mgrVars, dl, vm, wr>>

\* the release has been used
parse_return ==
  /\ dc.pc = "parsed"
  /\ dc' = InitDc
  /\ UNCHANGED <<cacheVars, diskVars, callVars, mgrVars, dl, vm, wr>>

ParseNext == parse_call \/ parse_return

ParseSpec == WrapperInit /\ [][ParseNext]_vars

\* ------------------------------------------------------------------------
\* Properties of _parse_release_data
\* ------------------------------------------------------------------------

\* the lower-cased name ends with .zip or contains the product name
NameFits(asset_name) ==
  \/ EndsWith(LowerStr(asset_name), <<".", "z", "i", "p">>)
  \/ Contains(LowerStr(asset_name), ProductName)

LiveResult(value) ==
  IF value = None THEN "nothing"
  ELSE IF value = Raised THEN "raised"
  ELSE "found"

\* a call of check_for_updates(force_check); lastOp keeps what it returned,
\* whether that came from the cache, and what the most recent call that
\* asked the release host found and when
repeat_check ==
  /\ \E force_check \in BOOLEAN, answer \in RemoteAnswers,
        read_io \in ReadOutcomes, write_io \in WriteOutcomes :
       \E r \in {check_for_updates(force_check, cache_file, now,
                                    current_version, answer, read_io,
                                    write_io)} :
         \E hit \in {~force_check
                      /\ _get_cached_release(cache_file, now, current_version,
                                             read_io) # None} :
           /\ cache_file' = r.file
           /\ lastOp' = [op |-> "check", force_check |-> force_check,
                         from_cache |-> hit, value |-> r.value,
                         live |-> IF hit THEN lastOp.live
                                  ELSE LiveResult(r.value),
                         live_at |-> IF hit THEN lastOp.live_at ELSE now]
  /\ UNCHANGED <<now, current_version, cached_result>>
  /\ UNCHANGED <<diskVars, callVars, mgrVars, ioVars>>

\* an hour passes
repeat_tick ==
  /\ now < MaxNow
  /\ now' = now + 1
  /\ UNCHANGED <<cache_file, current_version, cached_result, lastOp>>
  /\ UNCHANGED <<diskVars, callVars, mgrVars, ioVars>>

\* a new updater and no cache file
RepeatInit ==
  /\ now = 0
  /\ cache_file = NoFile
  /\ current_version = CURRENT_VERSION
  /\ cached_result = None
  /\ lastOp = [op |-> "init", live |-> "none", live_at |-> 0]
  /\ canonical = "A"
  /\ temp_old = "none"
  /\ pc = [p \in Procs |-> "idle"]
  /\ loc = [p \in Procs |-> InitLoc]
  /\ gh = [p \in Procs |-> InitGh]
  /\ ManagerConstructed
  /\ UpdaterIdle

RepeatNext == repeat_check \/ repeat_tick

RepeatSpec == RepeatInit /\ [][RepeatNext]_vars

\* C39: if the most recent check that asked the release host found no
\* newer release, a following check_for_updates that is not forced and
\* comes within the cache duration returns nothing too: the cache does not
\* go on serving the release an earlier check had found.
C39_NegativeResultSticks ==
  (/\ lastOp.op = "check"
   /\ ~lastOp.force_check
   /\ lastOp.live = "nothing"
   /\ now - lastOp.live_at <= CacheDurationHours)
    => lastOp.value = None

\* ------------------------------------------------------------------------
\* Properties of the cache file under the update manager
\* ------------------------------------------------------------------------

\* C35: the cache accesses of different check_for_updates executions never
\* overlap: no run reads or writes the cache file while another run is
\* writing it.  (The runs of the update manager are forced checks: they
\* write the cache file and never read it.)
C35_CacheAccessesDoNotOverlap ==
  \A p \in Procs : pc[p] = "c_cache" => ~CacheOpenElsewhere(p)

\* ------------------------------------------------------------------------
\* Properties of the result of install_update
\* ------------------------------------------------------------------------

\* C40: install_update returns True if and only if the canonical bundle path
\* holds the complete new bundle when it returns; whenever it returns False
\* the new bundle is not the one installed. The downloaded archive is one
\* whose content differs from the bundle installed before the call, so that
\* the two can be told apart.
C40_TrueIffNewBundle ==
  (Returned(1) /\ gh[1].newc # gh[1].pre)
    => (loc[1].success = "True"
          <=> (gh[1].newc \in Bundles /\ canonical = gh[1].newc))

====
